---- MODULE Spec2Model ----
(***************************************************************************)
(* The timer lifecycle engine of nuro (backend/app/services/timers.py,     *)
(* backend/app/models/timer.py, backend/app/utils/redis.py).               *)
(*                                                                         *)
(* One timer row of the durable store, its two keys of the ephemeral store *)
(* (nuro:timer:<id> and nuro:timer:<id>:finish-lock) and NumProcs request  *)
(* handlers that run concurrently, each with its own database session.     *)
(* A handler takes one step per round trip to the database or to Redis;    *)
(* the local computation that follows a round trip (no await in between)   *)
(* belongs to the same step.  Time is counted in ticks, TicksPerSecond to  *)
(* the second, so that the truncation to whole seconds is visible.         *)
(*                                                                         *)
(* The rate limiter works on keys of its own (nuro:rl:<scope>:<user>): it  *)
(* is modelled by RateSpec, and Spec models the requests it admitted.      *)
(***************************************************************************)
EXTENDS Integers, FiniteSets, Sequences, TLC

\* ---------------------------------------------------------------- bounds
NumProcs == 2
MaxTime == 4
DurationSeconds == 1
TicksPerSecond == 3
\* settings.rate_limit_tokens and settings.rate_limit_period_seconds
RateLimitTokens == 2
RateLimitPeriodSeconds == 1
\* the calls followed within one window of the limiter
MaxCalls == 4
\* the timers a run creates and the ids one batch request names
NumTimers == 2
MaxIds == 2
\* the requests the polling handler serves in one run
MaxRequests == 3
\* settings.long_poll_timeout_seconds and settings.long_poll_interval_seconds,
\* in ticks
LongPollTimeout == 2
LongPollInterval == 1
\* the commits of the durable store that fail in one run
MaxFailures == 1

\* ------------------------------------------------------ program constants
\* redis.set(lock_key, "1", ex=30, nx=True)
LockTtlSeconds == 30
\* Timer.version: default=1
InitialVersion == 1
\* A Python float keeps end_ts to a multiple of its unit in the last place,
\* which a microsecond (here: a tick) is not a multiple of.
UlpPerSecond == 8

Procs == 1..NumProcs
None == -1

VARIABLES
    now,      \* the wall clock, in ticks
    db,       \* the timer's row in the durable store
    cache,    \* the hash nuro:timer:<id>
    lock,     \* the key nuro:timer:<id>:finish-lock
    pc,       \* each handler's position
    loc,      \* each handler's session copy of the row (the ORM object)
    snap,     \* each handler's TimerSnapshot
    hist,     \* history of the durable writes and of the requests
    rl,       \* the counter nuro:rl:<scope>:<user id> of one identifier
    rq,       \* each caller of ensure_rate_limit: position and INCR's reply
    rlCalls,  \* history: the calls made in the counter's current window
    overdue,  \* history: what each handler's tick found when it loaded the row
    timers,   \* the rows of the timers a poll is about (PollSpec)
    buckets,  \* the counters nuro:rl:<scope>:<user id>, by key (PollSpec)
    req       \* the request in flight on the polling handler (PollSpec)

rateVars == <<rl, rq, rlCalls>>
pollVars == <<timers, buckets, req>>
vars == <<now, db, cache, lock, pc, loc, snap, hist, rl, rq, rlCalls, overdue,
          timers, buckets, req>>

\* ------------------------------------------------------------------ data
Max(a, b) == IF a >= b THEN a ELSE b

\* Python's int(): truncation toward zero of n / d, d > 0.
int(n, d) == IF n >= 0 THEN n \div d ELSE -((-n) \div d)

Seconds(s) == s * TicksPerSecond

NoTimer ==
    [status |-> "absent", version |-> 0, started_at |-> None, ends_at |-> None,
     completed_at |-> None, canceled_at |-> None, updated_at |-> None]

NoCache == [end_ts |-> None, expiry |-> None]
NoLock == [by |-> 0, expiry |-> None]
NoCounter == [value |-> 0, expiry |-> None]

NoSnap ==
    [status |-> "none", ends_at |-> None, remaining_seconds |-> None,
     version |-> None, last_modified |-> None, via |-> "none", miss |-> FALSE,
     at |-> None]

\* Timer(user_id, label, duration_seconds, started_at=now, ends_at=now+duration)
NewTimer(t) ==
    [status |-> "running", version |-> InitialVersion, started_at |-> t,
     ends_at |-> t + Seconds(DurationSeconds), completed_at |-> None,
     canceled_at |-> None, updated_at |-> t]

\* Mutant of touch: the version is bumped twice for one mutation.
touch_twice(timer, t) == [timer EXCEPT !.version = @ + 2, !.updated_at = t]

touch(timer, t) == [timer EXCEPT !.version = @ + 1, !.updated_at = t]

\* Mutant of mark_completed: the scheduled end is kept.
mark_completed_on_schedule(timer, when) ==
    touch([timer EXCEPT !.status = "completed", !.completed_at = when], when)

mark_completed(timer, when) ==
    touch([timer EXCEPT !.status = "completed", !.completed_at = when,
                        !.ends_at = when], when)

\* Mutant of mark_canceled: the end is frozen to the instant of cancellation.
mark_canceled_frozen(timer, when) ==
    touch([timer EXCEPT !.status = "canceled", !.canceled_at = when,
                        !.ends_at = when], when)

mark_canceled(timer, when) ==
    touch([timer EXCEPT !.status = "canceled", !.canceled_at = when], when)

\* session.commit() of a modified object: UPDATE timers SET <the attributes
\* whose value changed> WHERE id = :id.  The mapper has no version_id_col, so
\* the statement carries no version test and never fails on a stale copy.
flush(row, loaded, obj) ==
    [status       |-> IF obj.status # loaded.status THEN obj.status ELSE row.status,
     version      |-> IF obj.version # loaded.version THEN obj.version ELSE row.version,
     started_at   |-> IF obj.started_at # loaded.started_at
                      THEN obj.started_at ELSE row.started_at,
     ends_at      |-> IF obj.ends_at # loaded.ends_at THEN obj.ends_at ELSE row.ends_at,
     completed_at |-> IF obj.completed_at # loaded.completed_at
                      THEN obj.completed_at ELSE row.completed_at,
     canceled_at  |-> IF obj.canceled_at # loaded.canceled_at
                      THEN obj.canceled_at ELSE row.canceled_at,
     updated_at   |-> IF obj.updated_at # loaded.updated_at
                      THEN obj.updated_at ELSE row.updated_at]

\* datetime.timestamp(): the instant as a float, here in units in the last
\* place (round to nearest; no tie occurs).  str() and float() of it are exact.
timestamp(t) == (2 * t * UlpPerSecond + TicksPerSecond) \div (2 * TicksPerSecond)

\* datetime.fromtimestamp(): the float rounded to the nearest tick.
fromtimestamp(f) == (2 * f * TicksPerSecond + UlpPerSecond) \div (2 * UlpPerSecond)

\* Mutant of remaining_seconds: rounds to the nearest second, not toward zero.
remaining_seconds_rounded(end_ts, t) ==
    LET remaining == int(2 * (end_ts - timestamp(t)) + UlpPerSecond, 2 * UlpPerSecond)
    IN  IF remaining > 0 THEN remaining ELSE 0

\* TimerState.remaining_seconds(now)
remaining_seconds(end_ts, t) ==
    LET remaining == int(end_ts - timestamp(t), UlpPerSecond)
    IN  IF remaining > 0 THEN remaining ELSE 0

\* The keys Redis still holds at instant t: a key is gone once its TTL is over.
Unexpired(key, none, t) == IF key # none /\ key.expiry # None /\ key.expiry <= t
                             THEN none ELSE key

Idle(p) == pc[p] \in {"idle", "done"}

\* ----------------------------------------------------- polls: data (PollSpec)
\* The handler of PollSpec serves one request after the other; the requests
\* other handlers serve meanwhile show as ConcurrentCancel and as the
\* finalization inside a snapshot build.  The build of one snapshot, whose
\* round trips Spec follows one by one, is one step here.
TimerIds == 1..NumTimers
Users == {"u1", "u2"}
NoUser == ""

\* The scope each service method passes to enforce_rate_limit.
Scopes == {"timer:create", "timer:cancel", "timer:tick", "timer:batch-tick"}

\* RATE_LIMIT_TEMPLATE.format(key=identifier)
rate_limit_key(identifier) == "nuro:rl:" \o identifier

\* Mutant of Identifier: the counter is kept per user, whatever the action.
IdentifierOfUser(scope, user) == "timer:tick" \o ":" \o user

\* enforce_rate_limit, line 56: f"{scope}:{user.id}"
Identifier(scope, user) == scope \o ":" \o user

Keys == {"nuro:rl:" \o s \o ":" \o u : s \in Scopes, u \in Users}

NoRow == [user_id |-> NoUser] @@ NoTimer
NoTimers == [i \in TimerIds |-> NoRow]
NoBuckets == [k \in Keys |-> NoCounter]

\* No If-None-Match header, no entry in client_etags.
NoEtag == ""
\* A fingerprint the client kept from a state the timer has left.
StaleEtag == "W/stale"

RECURSIVE join(_, _)
\* sep.join(parts)
join(sep, parts) ==
    IF parts = <<>> THEN ""
    ELSE IF Len(parts) = 1 THEN parts[1]
    ELSE parts[1] \o sep \o join(sep, Tail(parts))

\* build_weak_etag: W/"<base64 of the SHA-1 of the joined parts>".  SHA-1 is
\* taken to be free of collisions: the digest is written as the text it digests.
build_weak_etag(parts) == "W/" \o join("::", parts)

NoTick ==
    [id |-> 0, status |-> "none", ends_at |-> None, remaining_seconds |-> None,
     last_modified |-> None, etag |-> NoEtag]

\* _build_timer_snapshot, lines 249-267, and TimerSnapshot.to_schema.
TimerTickResponse(id, timer, ends_at, remaining) ==
    [id |-> id, status |-> timer.status, ends_at |-> ends_at,
     remaining_seconds |-> remaining, last_modified |-> timer.updated_at,
     etag |-> build_weak_etag(<<ToString(id), timer.status,
                                ToString(timer.version), ToString(remaining)>>)]

\* _build_timer_snapshot of the row `timer` at instant t with no other
\* request in its way: the row it leaves and the snapshot it returns.  A
\* running row with nothing remaining is finalised (lines 240-244).
Built(id, timer, t) ==
    LET end_ts == timestamp(timer.ends_at)
        remaining == remaining_seconds(end_ts, t)
        completed == mark_completed(timer, t)
    IN  IF timer.status # "running"
        THEN [row |-> timer,
              snapshot |-> TimerTickResponse(id, timer, timer.ends_at, 0)]
        ELSE IF remaining <= 0
        THEN [row |-> completed,
              snapshot |-> TimerTickResponse(id, completed, completed.ends_at, 0)]
        ELSE [row |-> timer,
              snapshot |-> TimerTickResponse(id, timer, fromtimestamp(end_ts),
                                             remaining)]

\* _build_timer_snapshot of a running row with nothing remaining while
\* another request holds the finish lock (lines 275-278: SET NX fails, the
\* build sleeps and returns): the row stays and the snapshot says running, 0.
BuiltLosing(id, timer, t) ==
    [row |-> timer, snapshot |-> TimerTickResponse(id, timer, timer.ends_at, 0)]

\* _http_datetime: an HTTP date carries whole seconds.
_http_datetime(t) == t \div TicksPerSecond

\* _parse_if_modified_since of an HTTP date: the instant of that second.
_parse_if_modified_since(value) == IF value = None THEN None ELSE Seconds(value)

NoHeaders == [ETag |-> NoEtag, Last_Modified |-> None]

NoRequest ==
    [kind |-> "none", pc |-> "idle", user |-> NoUser, scope |-> "",
     timer_ids |-> <<>>, wait |-> FALSE,
     client_etags |-> [i \in TimerIds |-> NoEtag],
     client_last_modified |-> None, timeout_seconds |-> None,
     current |-> 0, deadline |-> None, wake |-> None,
     todo |-> {}, pending |-> {}, order |-> <<>>,
     snapshots |-> [i \in TimerIds |-> NoTick], not_modified |-> {},
     status_code |-> 0, tick |-> NoTick, headers |-> NoHeaders,
     timers |-> <<>>, not_modified_out |-> <<>>,
     \* history
     io |-> FALSE, builds |-> 0, sleeps |-> 0, returned_at |-> None,
     repeat |-> FALSE, wrote |-> FALSE,
     n |-> 0, fresh |-> [i \in TimerIds |-> NoEtag],
     seen |-> [tick |-> NoTick, version |-> 0]]

\* ------------------------------------------------------------- snapshots
\* Mutant of remaining_of_row: the seconds left are rounded up.
remaining_of_row_ceiling(timer, t) ==
    Max((timer.ends_at - t + TicksPerSecond - 1) \div TicksPerSecond, 0)

\* _build_timer_snapshot, line 237: max(int((timer.ends_at - now).total_seconds()), 0)
remaining_of_row(timer, t) == Max(int(timer.ends_at - t, TicksPerSecond), 0)

\* History: the remaining_seconds of the latest snapshot that reported the
\* timer as running.
Reported(h, snapshot) ==
    IF snapshot.status = "running"
    THEN [h EXCEPT !.last = snapshot.remaining_seconds] ELSE h

\* _build_timer_snapshot, lines 249-267: the view of the session copy.
TimerSnapshot(timer, ends_at, remaining, via, miss) ==
    [status |-> timer.status, ends_at |-> ends_at, remaining_seconds |-> remaining,
     version |-> timer.version, last_modified |-> timer.updated_at,
     via |-> via, miss |-> miss, at |-> now]

\* _build_timer_snapshot, lines 230-247, after _ensure_timer_state has
\* returned `state` (NoCache for None): either the snapshot is returned or, for
\* a running copy with nothing remaining, _finalise_completed_timer is entered.
build_timer_snapshot(p, state) ==
    LET timer == loc[p]
        remaining ==
            IF state # NoCache
            THEN remaining_seconds(state.end_ts, now)
            ELSE remaining_of_row(timer, now)
        ends_at ==
            IF state # NoCache THEN fromtimestamp(state.end_ts) ELSE timer.ends_at
        via == IF state # NoCache THEN "cache" ELSE "row"
    IN  IF timer.status = "running"
        THEN IF remaining <= 0
             THEN /\ pc' = [pc EXCEPT ![p] = "finalise"]
                  /\ snap' = snap
                  /\ hist' = hist
             ELSE /\ pc' = [pc EXCEPT ![p] = "done"]
                  /\ snap' = [snap EXCEPT ![p] =
                        TimerSnapshot(timer, ends_at, remaining, via, snap[p].miss)]
                  /\ hist' = Reported(hist, snap'[p])
        ELSE /\ pc' = [pc EXCEPT ![p] = "done"]
             /\ snap' = [snap EXCEPT ![p] =
                   TimerSnapshot(timer, timer.ends_at, 0, "plain", snap[p].miss)]
             /\ hist' = hist

\* --------------------------------------------------------------- actions
\* Mutant of create_timer: the id is not fresh and the insert replaces the row.
create_timer_again(p) ==
    /\ Idle(p)
    /\ db' = NewTimer(now)
    /\ loc' = [loc EXCEPT ![p] = NewTimer(now)]
    /\ snap' = [snap EXCEPT ![p] = NoSnap]
    /\ pc' = [pc EXCEPT ![p] = "create_persist"]
    /\ overdue' = [overdue EXCEPT ![p] = FALSE]
    /\ hist' = [hist EXCEPT !.noop[p] = FALSE]
    /\ UNCHANGED <<now, cache, lock, rl, rq, rlCalls, pollVars>>

\* create_timer, lines 69-79: INSERT, commit and refresh.  The id is a fresh
\* uuid4, so the row is inserted once.
create_timer(p) ==
    /\ Idle(p)
    /\ db = NoTimer
    /\ db' = NewTimer(now)
    /\ loc' = [loc EXCEPT ![p] = NewTimer(now)]
    /\ snap' = [snap EXCEPT ![p] = NoSnap]
    /\ pc' = [pc EXCEPT ![p] = "create_persist"]
    /\ overdue' = [overdue EXCEPT ![p] = FALSE]
    /\ hist' = [hist EXCEPT !.noop[p] = FALSE]
    /\ UNCHANGED <<now, cache, lock, rl, rq, rlCalls, pollVars>>

\* _load_timer_for_user: SELECT ... WHERE id = :id AND user_id = :user_id.
\* TimerNotFoundError ends the request.
_load_timer_for_user(p, found) ==
    /\ Idle(p)
    /\ loc' = [loc EXCEPT ![p] = db]
    /\ IF db = NoTimer
       THEN /\ pc' = [pc EXCEPT ![p] = "done"]
            /\ snap' = [snap EXCEPT ![p] = [NoSnap EXCEPT !.status = "not_found"]]
       ELSE /\ pc' = [pc EXCEPT ![p] = found]
            /\ snap' = [snap EXCEPT ![p] = NoSnap]
    /\ UNCHANGED <<now, db, cache, lock, rl, rq, rlCalls, pollVars>>

\* The row is running, its deadline has passed and no finish lock is held.
Overdue == db.status = "running" /\ now >= db.ends_at /\ lock = NoLock

\* get_timer, line 105 (timer_tick with wait = False loads and builds alike).
get_timer(p) ==
    /\ _load_timer_for_user(p, "ensure")
    /\ overdue' = [overdue EXCEPT ![p] = Overdue]
    /\ hist' = [hist EXCEPT !.noop[p] = FALSE]

\* Mutant of cancel_timer: no test of the status, every row found is canceled.
cancel_timer_whatever_status(p) ==
    /\ _load_timer_for_user(p, "cancel_commit")
    /\ overdue' = [overdue EXCEPT ![p] = FALSE]
    /\ hist' = [hist EXCEPT !.noop[p] = db.status \in {"completed", "canceled"}]

\* cancel_timer, lines 89-92: a copy that is not running is only viewed.
cancel_timer(p) ==
    /\ _load_timer_for_user(p, IF db.status = "running" THEN "cancel_commit"
                                                         ELSE "ensure")
    /\ overdue' = [overdue EXCEPT ![p] = FALSE]
    /\ hist' = [hist EXCEPT !.noop[p] = db.status \in {"completed", "canceled"}]

\* cancel_timer, lines 94-95: mark_canceled() and commit.
cancel_commit(p) ==
    /\ pc[p] = "cancel_commit"
    /\ LET obj == mark_canceled(loc[p], now)
       IN  /\ db' = flush(db, loc[p], obj)
           /\ loc' = [loc EXCEPT ![p] = obj]
    /\ hist' = [hist EXCEPT !.cancelWrites = @ + 1]
    /\ pc' = [pc EXCEPT ![p] = "cancel_refresh"]
    /\ UNCHANGED <<now, cache, lock, snap, rl, rq, rlCalls, overdue, pollVars>>

\* cancel_timer, line 96: session.refresh(timer).
cancel_refresh(p) ==
    /\ pc[p] = "cancel_refresh"
    /\ loc' = [loc EXCEPT ![p] = db]
    /\ pc' = [pc EXCEPT ![p] = "cancel_del_state"]
    /\ UNCHANGED <<now, db, cache, lock, snap, hist, rl, rq, rlCalls, overdue, pollVars>>

\* cancel_timer, line 98: redis.delete(timer_key).
cancel_del_state(p) ==
    /\ pc[p] = "cancel_del_state"
    /\ cache' = NoCache
    /\ pc' = [pc EXCEPT ![p] = "cancel_del_lock"]
    /\ UNCHANGED <<now, db, lock, loc, snap, hist, rl, rq, rlCalls, overdue, pollVars>>

\* cancel_timer, line 99: redis.delete(timer_finish_lock_key).
cancel_del_lock(p) ==
    /\ pc[p] = "cancel_del_lock"
    /\ lock' = NoLock
    /\ pc' = [pc EXCEPT ![p] = "ensure"]
    /\ UNCHANGED <<now, db, cache, loc, snap, hist, rl, rq, rlCalls, overdue, pollVars>>

\* _persist_timer_state: HSET and EXPIRE of nuro:timer:<id>.  No other
\* command tells a hash with a TTL from one without, so the two are one step.
_persist_timer_state(p) ==
    /\ pc[p] \in {"persist", "create_persist"}
    /\ LET timer == loc[p]
           ttl == Max(int(timer.ends_at - now, TicksPerSecond), 1)
       IN  cache' = IF timer.status # "running" THEN cache
                    ELSE [end_ts |-> timestamp(timer.ends_at),
                          expiry |-> now + Seconds(ttl)]
    /\ pc' = [pc EXCEPT ![p] = IF pc[p] = "persist" THEN "reread" ELSE "ensure"]
    /\ UNCHANGED <<now, db, lock, loc, snap, hist, rl, rq, rlCalls, overdue, pollVars>>

\* _ensure_timer_state, lines 219-222: HGETALL; on a miss for a running copy
\* the state is written back and read again, otherwise the snapshot is built.
_ensure_timer_state(p) ==
    /\ pc[p] = "ensure"
    /\ IF cache = NoCache /\ loc[p].status = "running"
       THEN /\ pc' = [pc EXCEPT ![p] = "persist"]
            /\ snap' = [snap EXCEPT ![p].miss = TRUE]
            /\ hist' = hist
       ELSE build_timer_snapshot(p, cache)
    /\ UNCHANGED <<now, db, cache, lock, loc, rl, rq, rlCalls, overdue, pollVars>>

\* _ensure_timer_state, lines 224-226: the second HGETALL.
_ensure_timer_state_again(p) ==
    /\ pc[p] = "reread"
    /\ build_timer_snapshot(p, cache)
    /\ UNCHANGED <<now, db, cache, lock, loc, rl, rq, rlCalls, overdue, pollVars>>

\* Mutant of _finalise_completed_timer: SET without NX, so that a caller that
\* finds the lock taken starts its TTL again.
_finalise_completed_timer_renewing(p) ==
    /\ pc[p] = "finalise"
    /\ IF lock = NoLock
       THEN /\ lock' = [by |-> p, expiry |-> now + Seconds(LockTtlSeconds)]
            /\ pc' = [pc EXCEPT ![p] = "commit"]
       ELSE /\ lock' = [lock EXCEPT !.expiry = now + Seconds(LockTtlSeconds)]
            /\ pc' = [pc EXCEPT ![p] = "refresh_lost"]
    /\ hist' = [hist EXCEPT !.attempted = TRUE]
    /\ UNCHANGED <<now, db, cache, loc, snap, rl, rq, rlCalls, overdue, pollVars>>

\* _finalise_completed_timer, lines 270-278: SET lock "1" EX 30 NX.  The copy
\* is running here (line 240 is reached only with a running copy).
_finalise_completed_timer(p) ==
    /\ pc[p] = "finalise"
    /\ IF lock = NoLock
       THEN /\ lock' = [by |-> p, expiry |-> now + Seconds(LockTtlSeconds)]
            /\ pc' = [pc EXCEPT ![p] = "commit"]
       ELSE /\ lock' = lock
            /\ pc' = [pc EXCEPT ![p] = "refresh_lost"]
    /\ hist' = [hist EXCEPT !.attempted = TRUE]
    /\ UNCHANGED <<now, db, cache, loc, snap, rl, rq, rlCalls, overdue, pollVars>>

\* _finalise_completed_timer, lines 281-282: mark_completed() and commit.
finalise_commit(p) ==
    /\ pc[p] = "commit"
    /\ LET obj == mark_completed(loc[p], now)
       IN  /\ db' = flush(db, loc[p], obj)
           /\ loc' = [loc EXCEPT ![p] = obj]
    /\ hist' = [hist EXCEPT
          !.finalWrites = @ + 1,
          !.runToCompleted = IF db.status = "running" THEN @ + 1 ELSE @,
          !.preVersion = IF hist.finalWrites = 0 THEN db.version ELSE @]
    /\ pc' = [pc EXCEPT ![p] = "release"]
    /\ UNCHANGED <<now, cache, lock, snap, rl, rq, rlCalls, overdue, pollVars>>

\* Mutant of finalise_commit_fails: no finally block, the error leaves at once.
finalise_commit_fails_unguarded(p) ==
    /\ pc[p] = "commit"
    /\ hist.failures < MaxFailures
    /\ hist' = [hist EXCEPT !.failures = @ + 1]
    /\ loc' = [loc EXCEPT ![p] = mark_completed(loc[p], now)]
    /\ snap' = [snap EXCEPT ![p] = [NoSnap EXCEPT !.status = "error",
                                                  !.via = "failed", !.at = now]]
    /\ pc' = [pc EXCEPT ![p] = "done"]
    /\ UNCHANGED <<now, db, cache, lock, rl, rq, rlCalls, overdue, pollVars>>

\* _finalise_completed_timer, lines 281-283: session.commit() raises (the
\* durable store fails); nothing is written and the finally block is entered.
finalise_commit_fails(p) ==
    /\ pc[p] = "commit"
    /\ hist.failures < MaxFailures
    /\ hist' = [hist EXCEPT !.failures = @ + 1]
    /\ loc' = [loc EXCEPT ![p] = mark_completed(loc[p], now)]
    /\ snap' = [snap EXCEPT ![p].via = "failed"]
    /\ pc' = [pc EXCEPT ![p] = "release"]
    /\ UNCHANGED <<now, db, cache, lock, rl, rq, rlCalls, overdue, pollVars>>

\* Mutant of finalise_release: the lock is left to its TTL.
finalise_release_kept(p) ==
    /\ pc[p] = "release"
    /\ pc' = [pc EXCEPT ![p] = "clear"]
    /\ UNCHANGED <<now, db, cache, lock, loc, snap, hist, rl, rq, rlCalls, overdue,
                   pollVars>>

\* _finalise_completed_timer, line 284: redis.delete(lock_key).
finalise_release(p) ==
    /\ pc[p] = "release"
    /\ lock' = NoLock
    /\ pc' = [pc EXCEPT ![p] = "clear"]
    /\ UNCHANGED <<now, db, cache, loc, snap, hist, rl, rq, rlCalls, overdue, pollVars>>

\* _finalise_completed_timer, line 285: redis.delete(timer_key).  After it the
\* error of a failed commit goes on to the caller of the request.
finalise_clear(p) ==
    /\ pc[p] = "clear"
    /\ cache' = NoCache
    /\ IF snap[p].via = "failed"
       THEN /\ pc' = [pc EXCEPT ![p] = "done"]
            /\ snap' = [snap EXCEPT ![p] = [NoSnap EXCEPT !.status = "error",
                                                          !.via = "failed",
                                                          !.at = now]]
       ELSE /\ pc' = [pc EXCEPT ![p] = "refresh_won"]
            /\ snap' = snap
    /\ UNCHANGED <<now, db, lock, loc, hist, rl, rq, rlCalls, overdue, pollVars>>

\* Mutant of refresh: the session copy is viewed without reading the row again.
refresh_without_reread(p) ==
    /\ pc[p] \in {"refresh_won", "refresh_lost"}
    /\ loc' = loc
    /\ snap' = [snap EXCEPT ![p] =
          TimerSnapshot(loc[p], loc[p].ends_at, 0,
                        IF pc[p] = "refresh_won" THEN "won" ELSE "lost", snap[p].miss)]
    /\ hist' = Reported(hist, snap'[p])
    /\ pc' = [pc EXCEPT ![p] = "done"]
    /\ UNCHANGED <<now, db, cache, lock, rl, rq, rlCalls, overdue, pollVars>>

\* _build_timer_snapshot, lines 242-244: session.refresh(timer), then the
\* snapshot of the refreshed copy with nothing remaining.
refresh(p) ==
    /\ pc[p] \in {"refresh_won", "refresh_lost"}
    /\ loc' = [loc EXCEPT ![p] = db]
    /\ snap' = [snap EXCEPT ![p] =
          TimerSnapshot(db, db.ends_at, 0,
                        IF pc[p] = "refresh_won" THEN "won" ELSE "lost", snap[p].miss)]
    /\ hist' = Reported(hist, snap'[p])
    /\ pc' = [pc EXCEPT ![p] = "done"]
    /\ UNCHANGED <<now, db, cache, lock, rl, rq, rlCalls, overdue, pollVars>>

\* The worker that holds the finish lock dies (the process is killed, the
\* host is lost) between its SET NX and its DEL: it takes no further step.
Crash(p) ==
    /\ pc[p] \in {"commit", "release"}
    /\ \A q \in Procs : pc[q] # "crashed"
    /\ pc' = [pc EXCEPT ![p] = "crashed"]
    /\ UNCHANGED <<now, db, cache, lock, loc, snap, hist, rl, rq, rlCalls, overdue,
                   pollVars>>

\* Time passes; Redis drops the keys whose TTL is over.
Tick ==
    /\ now < MaxTime
    /\ now' = now + 1
    /\ cache' = Unexpired(cache, NoCache, now + 1)
    /\ lock' = Unexpired(lock, NoLock, now + 1)
    /\ rl' = Unexpired(rl, NoCounter, now + 1)
    /\ rlCalls' = IF rl' = NoCounter THEN 0 ELSE rlCalls
    /\ buckets' = [k \in Keys |-> Unexpired(buckets[k], NoCounter, now + 1)]
    /\ UNCHANGED <<db, pc, loc, snap, hist, rq, overdue, timers, req>>

\* Mutant of LockTtlElapses: the lock was set without a time to live.
LockOutlivesTtl ==
    /\ lock # NoLock
    /\ now' = lock.expiry
    /\ cache' = Unexpired(cache, NoCache, lock.expiry)
    /\ lock' = lock
    /\ rl' = Unexpired(rl, NoCounter, lock.expiry)
    /\ rlCalls' = IF rl' = NoCounter THEN 0 ELSE rlCalls
    /\ buckets' = [k \in Keys |-> Unexpired(buckets[k], NoCounter, lock.expiry)]
    /\ UNCHANGED <<db, pc, loc, snap, hist, rq, overdue, timers, req>>

\* The holder of the finish lock takes longer than the lock's TTL.
LockTtlElapses ==
    /\ lock # NoLock
    /\ now' = lock.expiry
    /\ cache' = Unexpired(cache, NoCache, lock.expiry)
    /\ lock' = NoLock
    /\ rl' = Unexpired(rl, NoCounter, lock.expiry)
    /\ rlCalls' = IF rl' = NoCounter THEN 0 ELSE rlCalls
    /\ buckets' = [k \in Keys |-> Unexpired(buckets[k], NoCounter, lock.expiry)]
    /\ UNCHANGED <<db, pc, loc, snap, hist, rq, overdue, timers, req>>

\* Redis loses the hash (flushall, eviction, restart): the cache is advisory.
CacheLost ==
    /\ cache # NoCache
    /\ cache' = NoCache
    /\ UNCHANGED <<now, db, lock, pc, loc, snap, hist, rl, rq, rlCalls, overdue, pollVars>>

\* ---------------------------------------------------------- specification
Init ==
    /\ rl = NoCounter
    /\ rq = [p \in Procs |-> [pc |-> "idle", current |-> 0, k |-> 0]]
    /\ rlCalls = 0
    /\ now = 0
    /\ db = NoTimer
    /\ cache = NoCache
    /\ lock = NoLock
    /\ pc = [p \in Procs |-> "idle"]
    /\ loc = [p \in Procs |-> NoTimer]
    /\ snap = [p \in Procs |-> NoSnap]
    /\ hist = [attempted |-> FALSE, finalWrites |-> 0, cancelWrites |-> 0,
               runToCompleted |-> 0, preVersion |-> 0, last |-> None,
               failures |-> 0, noop |-> [p \in Procs |-> FALSE]]
    /\ overdue = [p \in Procs |-> FALSE]
    /\ timers = NoTimers
    /\ buckets = NoBuckets
    /\ req = NoRequest

Next ==
    \/ \E p \in Procs : create_timer(p)
    \/ \E p \in Procs : get_timer(p)
    \/ \E p \in Procs : cancel_timer(p)
    \/ \E p \in Procs : cancel_commit(p)
    \/ \E p \in Procs : cancel_refresh(p)
    \/ \E p \in Procs : cancel_del_state(p)
    \/ \E p \in Procs : cancel_del_lock(p)
    \/ \E p \in Procs : _persist_timer_state(p)
    \/ \E p \in Procs : _ensure_timer_state(p)
    \/ \E p \in Procs : _ensure_timer_state_again(p)
    \/ \E p \in Procs : _finalise_completed_timer(p)
    \/ \E p \in Procs : finalise_commit(p)
    \/ \E p \in Procs : finalise_release(p)
    \/ \E p \in Procs : finalise_clear(p)
    \/ \E p \in Procs : refresh(p)
    \/ Tick
    \/ LockTtlElapses
    \/ CacheLost

Spec == Init /\ [][Next]_vars

\* ------------------------------------- a crashing lock holder (LiveSpec)
\* The steps of handler p in a run of observers: the timer is created and
\* then read by get_timer (a tick builds its snapshot in the same way).
Observe(p) ==
    \/ create_timer(p)
    \/ get_timer(p)
    \/ _persist_timer_state(p)
    \/ _ensure_timer_state(p)
    \/ _ensure_timer_state_again(p)
    \/ _finalise_completed_timer(p)
    \/ finalise_commit(p)
    \/ finalise_release(p)
    \/ finalise_clear(p)
    \/ refresh(p)

LiveNext ==
    \/ \E p \in Procs : Observe(p)
    \/ \E p \in Procs : Crash(p)
    \/ Tick
    \/ LockTtlElapses

\* The event loop runs every handler that can take a step, requests keep
\* arriving at every live worker, and Redis expires the lock as time passes.
LiveSpec ==
    /\ Init /\ [][LiveNext]_vars
    /\ \A p \in Procs : WF_vars(Observe(p))
    /\ WF_vars(LockTtlElapses)

\* ------------------------------------- a failing durable store (FailSpec)
\* The requests of Spec, with commits of a completion that may fail.
FailNext ==
    \/ Next
    \/ \E p \in Procs : finalise_commit_fails(p)

FailSpec == Init /\ [][FailNext]_vars

\* _ensure_timer_state, lines 219 and 225: redis.hgetall raises (the ephemeral
\* store fails).  Neither _ensure_timer_state nor _build_timer_snapshot nor
\* the service method nor the route catches it: the request ends in an error.
_ensure_timer_state_fails(p) ==
    /\ pc[p] \in {"ensure", "reread"}
    /\ hist.failures < MaxFailures
    /\ hist' = [hist EXCEPT !.failures = @ + 1]
    /\ snap' = [snap EXCEPT ![p] = [NoSnap EXCEPT !.status = "error",
                                                  !.via = "unread", !.at = now]]
    /\ pc' = [pc EXCEPT ![p] = "done"]
    /\ UNCHANGED <<now, db, cache, lock, loc, rl, rq, rlCalls, overdue, pollVars>>

\* ------------------------------------- one request at a time (SeqSpec)
\* Requests are served one after the other, and the ephemeral store loses the
\* hash only between two requests.
Alone(p) == \A q \in Procs \ {p} : Idle(q)

SeqNext ==
    \/ \E p \in Procs : Alone(p) /\ create_timer(p)
    \/ \E p \in Procs : Alone(p) /\ get_timer(p)
    \/ \E p \in Procs : Alone(p) /\ cancel_timer(p)
    \/ \E p \in Procs : Alone(p) /\ cancel_commit(p)
    \/ \E p \in Procs : Alone(p) /\ cancel_refresh(p)
    \/ \E p \in Procs : Alone(p) /\ cancel_del_state(p)
    \/ \E p \in Procs : Alone(p) /\ cancel_del_lock(p)
    \/ \E p \in Procs : Alone(p) /\ _persist_timer_state(p)
    \/ \E p \in Procs : Alone(p) /\ _ensure_timer_state(p)
    \/ \E p \in Procs : Alone(p) /\ _ensure_timer_state_again(p)
    \/ \E p \in Procs : Alone(p) /\ _finalise_completed_timer(p)
    \/ \E p \in Procs : Alone(p) /\ finalise_commit(p)
    \/ \E p \in Procs : Alone(p) /\ finalise_release(p)
    \/ \E p \in Procs : Alone(p) /\ finalise_clear(p)
    \/ \E p \in Procs : Alone(p) /\ refresh(p)
    \/ Tick
    \/ LockTtlElapses
    \/ (\A p \in Procs : Idle(p)) /\ CacheLost

SeqSpec == Init /\ [][SeqNext]_vars

\* ------------------------------- a failing ephemeral store (CacheFailSpec)
\* The requests of SeqSpec, with cache reads that may fail.
CacheFailNext ==
    \/ SeqNext
    \/ \E p \in Procs : Alone(p) /\ _ensure_timer_state_fails(p)

CacheFailSpec == Init /\ [][CacheFailNext]_vars

\* ------------------------------------------------ the rate limiter (RateSpec)
\* Mutant of Exceeded: the quota's last call is refused as well.
ExceededOffByOne(current, tokens) == current >= tokens

\* ensure_rate_limit, line 47: current > tokens.
Exceeded(current, tokens) == current > tokens

\* ensure_rate_limit, lines 47-48, seen through enforce_rate_limit, lines
\* 60-64: RateLimitExceededError becomes HTTP 429, otherwise the request goes on.
RateVerdict(current) ==
    IF Exceeded(current, RateLimitTokens) THEN "rejected" ELSE "allowed"

\* ensure_rate_limit, lines 41-45: the pipeline INCR key 1; TTL key runs as one
\* transaction.  TTL replies -1 for a key without expiry: only then does the
\* caller go on to EXPIRE.
ensure_rate_limit(p) ==
    /\ rq[p].pc \in {"idle", "allowed", "rejected"}
    /\ rlCalls < MaxCalls
    /\ LET current == rl.value + 1
           ttl == IF rl.expiry = None THEN -1
                  ELSE (rl.expiry - now + TicksPerSecond - 1) \div TicksPerSecond
       IN  /\ rl' = [rl EXCEPT !.value = current]
           /\ rq' = [rq EXCEPT ![p] =
                 [pc |-> IF ttl = -1 THEN "expire" ELSE RateVerdict(current),
                  current |-> current, k |-> rlCalls + 1]]
    /\ rlCalls' = rlCalls + 1
    /\ UNCHANGED <<now, db, cache, lock, pc, loc, snap, hist, overdue, pollVars>>

\* ensure_rate_limit, lines 45-48: EXPIRE key period_seconds (without effect
\* on a key that is gone), then the comparison.
ensure_rate_limit_expire(p) ==
    /\ rq[p].pc = "expire"
    /\ rl' = IF rl = NoCounter THEN rl
             ELSE [rl EXCEPT !.expiry = now + Seconds(RateLimitPeriodSeconds)]
    /\ rq' = [rq EXCEPT ![p].pc = RateVerdict(rq[p].current)]
    /\ UNCHANGED <<now, db, cache, lock, pc, loc, snap, hist, rlCalls, overdue, pollVars>>

RateNext ==
    \/ \E p \in Procs : ensure_rate_limit(p)
    \/ \E p \in Procs : ensure_rate_limit_expire(p)
    \/ Tick

RateSpec == Init /\ [][RateNext]_vars

\* ------------------------------------------------- polls: actions (PollSpec)
Free == req.pc = "idle" /\ req.n < MaxRequests

\* A request as it enters its handler: the n-th of the run.
Request(kind, scope, user) ==
    [NoRequest EXCEPT !.kind = kind, !.scope = scope, !.user = user,
                      !.pc = "gate", !.n = req.n + 1, !.seen = req.seen]

\* The response leaves the handler.
Respond(r, code) == [r EXCEPT !.pc = "done", !.status_code = code,
                              !.returned_at = now]

\* Mutant of ensure_unique_ids: the list is compared with itself.
ensure_unique_ids_of_list(value) ==
    Len(value) = Len([i \in 1..Len(value) |-> value[i]])

\* TimerBatchTickRequest.ensure_unique_ids: len(value) != len(set(value)) raises.
ensure_unique_ids(value) ==
    Len(value) = Cardinality({value[i] : i \in 1..Len(value)})

\* Mutant of Found: the row with this id, whoever owns it.
FoundWhoeverOwns(id, user) == timers[id].status # "absent"

\* _load_timer_for_user: the row with this id AND this user_id, if any.
Found(id, user) == timers[id].status # "absent" /\ timers[id].user_id = user

\* POST /timers -> create_timer.  The table holds NumTimers rows: a request
\* is followed if a fresh id is left for it or if its quota is used up.
start_timer(user) ==
    /\ Free
    /\ \/ \E id \in TimerIds : timers[id] = NoRow
       \/ buckets[rate_limit_key(Identifier("timer:create", user))].value
              >= RateLimitTokens
    /\ req' = Request("create", "timer:create", user)
    /\ UNCHANGED <<now, db, cache, lock, pc, loc, snap, hist, rl, rq, rlCalls,
                   overdue, timers, buckets>>

\* GET /timers/{timer_id} -> get_timer, which checks no rate limit.
get_timer_by_id(user, id) ==
    /\ Free
    /\ req' = [Request("get", "", user) EXCEPT !.timer_ids = <<id>>, !.pc = "get"]
    /\ UNCHANGED <<now, db, cache, lock, pc, loc, snap, hist, rl, rq, rlCalls,
                   overdue, timers, buckets>>

\* POST /timers/{timer_id}/cancel -> cancel_timer.
cancel_timer_by_id(user, id) ==
    /\ Free
    /\ req' = [Request("cancel", "timer:cancel", user) EXCEPT !.timer_ids = <<id>>]
    /\ UNCHANGED <<now, db, cache, lock, pc, loc, snap, hist, rl, rq, rlCalls,
                   overdue, timers, buckets>>

\* GET /timers/{timer_id}/tick -> timer_tick, lines 135-137 of the route.
timer_tick(user, id, wait, if_none_match, if_modified_since) ==
    /\ Free
    /\ req' = [Request("tick", "timer:tick", user) EXCEPT
          !.timer_ids = <<id>>, !.wait = wait,
          !.client_etags = [@ EXCEPT ![id] = if_none_match],
          !.client_last_modified = _parse_if_modified_since(if_modified_since)]
    /\ UNCHANGED <<now, db, cache, lock, pc, loc, snap, hist, rl, rq, rlCalls,
                   overdue, timers, buckets>>

\* POST /timers/batch/tick: the payload is validated before batch_tick runs;
\* a ValueError of the validator is answered with 422.
batch_tick(user, timer_ids, wait, client_etags, timeout_seconds) ==
    /\ Free
    /\ LET r == [Request("batch", "timer:batch-tick", user) EXCEPT
                    !.timer_ids = timer_ids, !.wait = wait,
                    !.client_etags = client_etags,
                    !.timeout_seconds = timeout_seconds]
       IN  req' = IF ensure_unique_ids(timer_ids) THEN r ELSE Respond(r, 422)
    /\ UNCHANGED <<now, db, cache, lock, pc, loc, snap, hist, rl, rq, rlCalls,
                   overdue, timers, buckets>>

\* batch_timer_tick, lines 185-193: the resolved items in the order of
\* request.timer_ids, and sorted(not_modified).
RECURSIVE sorted(_)
sorted(S) ==
    IF S = {} THEN <<>>
    ELSE LET least == CHOOSE x \in S : \A y \in S : x <= y
         IN  <<least>> \o sorted(S \ {least})

\* Mutant of response_items: the items in the order they were resolved in.
response_items_as_resolved(r) == [i \in 1..Len(r.order) |-> r.snapshots[r.order[i]]]

response_items(r) ==
    LET kept == SelectSeq(r.timer_ids, LAMBDA id : r.snapshots[id] # NoTick)
    IN  [i \in 1..Len(kept) |-> r.snapshots[kept[i]]]

TimerBatchTickResponse(r) ==
    Respond([r EXCEPT !.timers = response_items(r),
                      !.not_modified_out = sorted(r.not_modified)], 200)

\* Mutant of TickOutcome: only If-Modified-Since is looked at.
TickOutcomeByDateOnly(client_etag, client_last_modified, tick) ==
    IF client_last_modified # None /\ tick.last_modified <= client_last_modified
    THEN 304 ELSE 200

\* The route timer_tick, lines 151-158: 304 Not Modified or the snapshot.
TickOutcome(client_etag, client_last_modified, tick) ==
    IF client_etag # NoEtag /\ tick.etag = client_etag THEN 304
    ELSE IF client_last_modified # None /\ tick.last_modified <= client_last_modified
         THEN 304
    ELSE 200

\* The route timer_tick, lines 146-158: both outcomes carry the headers.
TimerTickReply(r, tick) ==
    LET id == r.timer_ids[1]
    IN  Respond([r EXCEPT
            !.tick = tick,
            !.repeat = /\ r.seen.tick.id = id
                       /\ r.seen.tick.status = tick.status
                       /\ r.seen.tick.remaining_seconds = tick.remaining_seconds
                       /\ r.seen.version = timers'[id].version,
            !.headers = [ETag |-> tick.etag,
                         Last_Modified |-> _http_datetime(tick.last_modified)],
            !.seen = [tick |-> tick, version |-> timers'[id].version]],
          TickOutcome(r.client_etags[id], r.client_last_modified, tick))

\* Mutant of Admitted: the deadline of a waiting call is a day away.
AdmittedForADay(r) ==
    CASE r.kind = "create" -> [r EXCEPT !.pc = "create"]
      [] r.kind = "cancel" -> [r EXCEPT !.pc = "cancel"]
      [] r.kind = "tick" ->
            [r EXCEPT !.pc = "poll",
                      !.deadline = now + (IF r.wait THEN Seconds(86400) ELSE 0)]
      [] r.kind = "batch" ->
            LET pending == {r.timer_ids[i] : i \in 1..Len(r.timer_ids)}
                armed == [r EXCEPT
                            !.deadline = now + (IF r.wait THEN Seconds(86400) ELSE 0),
                            !.pending = pending, !.todo = pending, !.pc = "round"]
            IN  IF pending = {} THEN TimerBatchTickResponse(armed) ELSE armed

\* What follows enforce_rate_limit when it returns: create_timer line 69,
\* cancel_timer line 89, timer_tick lines 131-135, batch_timer_tick lines
\* 154-164 (`timeout_seconds or default`: 0 counts as not given).
Admitted(r) ==
    CASE r.kind = "create" -> [r EXCEPT !.pc = "create"]
      [] r.kind = "cancel" -> [r EXCEPT !.pc = "cancel"]
      [] r.kind = "tick" ->
            [r EXCEPT !.pc = "poll",
                      !.deadline = now + (IF r.wait THEN LongPollTimeout ELSE 0)]
      [] r.kind = "batch" ->
            LET timeout == IF r.timeout_seconds \in {None, 0}
                           THEN LongPollTimeout ELSE r.timeout_seconds
                pending == {r.timer_ids[i] : i \in 1..Len(r.timer_ids)}
                armed == [r EXCEPT
                            !.deadline = now + (IF r.wait THEN timeout ELSE 0),
                            !.pending = pending, !.todo = pending, !.pc = "round"]
            IN  IF pending = {} THEN TimerBatchTickResponse(armed) ELSE armed

\* enforce_rate_limit, lines 60-64, after ensure_rate_limit, lines 47-48:
\* RateLimitExceededError is answered with 429.
Gate(r, current) ==
    IF Exceeded(current, RateLimitTokens)
    THEN Respond([r EXCEPT !.current = current], 429)
    ELSE Admitted([r EXCEPT !.current = current])

\* enforce_rate_limit -> ensure_rate_limit, lines 40-45: INCR and TTL of the
\* request's own key in one pipeline.
enforce_rate_limit ==
    /\ req.pc = "gate"
    /\ LET key == rate_limit_key(Identifier(req.scope, req.user))
           current == buckets[key].value + 1
           ttl == IF buckets[key].expiry = None THEN -1
                  ELSE (buckets[key].expiry - now + TicksPerSecond - 1)
                           \div TicksPerSecond
       IN  /\ buckets' = [buckets EXCEPT ![key].value = current]
           /\ req' = IF ttl = -1
                     THEN [req EXCEPT !.pc = "gate_expire", !.current = current]
                     ELSE Gate(req, current)
    /\ UNCHANGED <<now, db, cache, lock, pc, loc, snap, hist, rl, rq, rlCalls,
                   overdue, timers>>

\* ensure_rate_limit, lines 45-48: EXPIRE of the key, then the comparison.
enforce_rate_limit_expire ==
    /\ req.pc = "gate_expire"
    /\ LET key == rate_limit_key(Identifier(req.scope, req.user))
       IN  buckets' = IF buckets[key] = NoCounter THEN buckets
                      ELSE [buckets EXCEPT
                              ![key].expiry = now + Seconds(RateLimitPeriodSeconds)]
    /\ req' = Gate(req, req.current)
    /\ UNCHANGED <<now, db, cache, lock, pc, loc, snap, hist, rl, rq, rlCalls,
                   overdue, timers>>

\* create_timer, lines 69-84: the row is inserted under a fresh id (the cache
\* entry and the snapshot that follow are Spec's subject).
create_timer_insert(id) ==
    /\ req.pc = "create"
    /\ timers[id] = NoRow
    /\ timers' = [timers EXCEPT ![id] = [user_id |-> req.user] @@ NewTimer(now)]
    /\ req' = Respond([req EXCEPT !.io = TRUE, !.wrote = TRUE,
                                  !.timer_ids = <<id>>], 201)
    /\ UNCHANGED <<now, db, cache, lock, pc, loc, snap, hist, rl, rq, rlCalls,
                   overdue, buckets>>

\* cancel_timer, lines 89-102: TimerNotFoundError is answered with 404.
cancel_timer_body ==
    /\ req.pc = "cancel"
    /\ LET id == req.timer_ids[1]
           r == [req EXCEPT !.io = TRUE]
       IN  IF ~Found(id, req.user)
           THEN /\ req' = Respond(r, 404)
                /\ timers' = timers
           ELSE /\ timers' = IF timers[id].status = "running"
                             THEN [timers EXCEPT ![id] = mark_canceled(@, now)]
                             ELSE timers
                /\ req' = Respond([r EXCEPT
                       !.wrote = timers' # timers,
                       !.tick = TimerTickResponse(id, timers'[id],
                                                  timers'[id].ends_at, 0)],
                     200)
    /\ UNCHANGED <<now, db, cache, lock, pc, loc, snap, hist, rl, rq, rlCalls,
                   overdue, buckets>>

\* get_timer, lines 105-107, and the route's answer to TimerNotFoundError.
get_timer_body ==
    /\ req.pc = "get"
    /\ LET id == req.timer_ids[1]
           built == Built(id, timers[id], now)
           r == [req EXCEPT !.io = TRUE, !.builds = @ + 1,
                            !.wrote = built.row # timers[id]]
       IN  IF ~Found(id, req.user)
           THEN /\ req' = Respond([req EXCEPT !.io = TRUE], 404)
                /\ timers' = timers
           ELSE /\ timers' = [timers EXCEPT ![id] = built.row]
                /\ req' = Respond([r EXCEPT !.tick = built.snapshot], 200)
    /\ UNCHANGED <<now, db, cache, lock, pc, loc, snap, hist, rl, rq, rlCalls,
                   overdue, buckets>>

\* Mutant of Suspend: the interval grows with every turn (a backoff).
SuspendWithBackoff(r) ==
    [r EXCEPT !.pc = "sleep", !.wake = now + LongPollInterval * (r.sleeps + 1),
              !.sleeps = @ + 1]

\* asyncio.sleep(interval), lines 145 and 183.
Suspend(r) == [r EXCEPT !.pc = "sleep", !.wake = now + LongPollInterval,
                        !.sleeps = @ + 1]

\* timer_tick, lines 135-145: one turn of the loop, with the snapshot that
\* _build_timer_snapshot returns (lost: its finalisation finds the lock held).
timer_tick_turn(lost) ==
    /\ req.pc = "poll"
    /\ LET id == req.timer_ids[1]
           built == IF lost THEN BuiltLosing(id, timers[id], now)
                    ELSE Built(id, timers[id], now)
           snapshot == built.snapshot
           r == [req EXCEPT !.io = TRUE, !.builds = @ + 1,
                            !.wrote = @ \/ built.row # timers[id],
                            !.fresh = [@ EXCEPT ![id] = snapshot.etag]]
       IN  IF ~Found(id, req.user)
           THEN /\ req' = Respond([req EXCEPT !.io = TRUE], 404)
                /\ timers' = timers
           ELSE /\ timers' = [timers EXCEPT ![id] = built.row]
                /\ req' =
                     IF snapshot.etag # req.client_etags[id] \/ ~req.wait
                     THEN TimerTickReply(r, snapshot)
                     ELSE IF now >= req.deadline
                     THEN TimerTickReply(r, snapshot)
                     ELSE Suspend(r)
    /\ UNCHANGED <<now, db, cache, lock, pc, loc, snap, hist, rl, rq, rlCalls,
                   overdue, buckets>>

\* timer_tick, lines 135-145: a turn whose build finalises what is overdue.
timer_tick_poll == timer_tick_turn(FALSE)

\* The finish lock of the id is held by another request and the row is
\* running with nothing remaining: a build of it loses the lock.
LosesLock(id) ==
    /\ timers[id].status = "running"
    /\ remaining_seconds(timestamp(timers[id].ends_at), now) <= 0

\* timer_tick, lines 135-145: a turn whose build loses the finish lock.
timer_tick_poll_lost ==
    /\ req.pc = "poll"
    /\ LosesLock(req.timer_ids[1])
    /\ timer_tick_turn(TRUE)

\* Mutant of RoundEnd: at the deadline the pending ids are left out of the
\* response.
RoundEndDroppingPending(r) ==
    IF r.pending = {} \/ ~r.wait THEN TimerBatchTickResponse(r)
    ELSE IF now >= r.deadline
    THEN TimerBatchTickResponse(r)
    ELSE Suspend(r)

\* Mutant of RoundEnd: a round that resolved nothing new reports the pending
\* ids at once.
RoundEndWithoutWaiting(r) ==
    IF r.pending = {} \/ ~r.wait THEN TimerBatchTickResponse(r)
    ELSE TimerBatchTickResponse([r EXCEPT !.not_modified = @ \cup r.pending])

\* batch_timer_tick, lines 176-183: after the for loop of a round.
RoundEnd(r) ==
    IF r.pending = {} \/ ~r.wait THEN TimerBatchTickResponse(r)
    ELSE IF now >= r.deadline
    THEN TimerBatchTickResponse([r EXCEPT !.not_modified = @ \cup r.pending])
    ELSE Suspend(r)

\* Mutant of batch_tick_not_found: the id is skipped and the batch answers
\* with what it has resolved so far.
batch_tick_partial(r) == TimerBatchTickResponse([r EXCEPT !.io = TRUE])

\* batch_tick, api/timers.py lines 172-175: TimerNotFoundError raised by
\* _load_timer_for_user (line 166) leaves the service and becomes a 404.
batch_tick_not_found(r) == Respond([r EXCEPT !.io = TRUE], 404)

\* batch_timer_tick, lines 165-174: one pass of the for loop (a set is
\* iterated in no particular order), with the snapshot that
\* _build_timer_snapshot returns (lost: its finalisation finds the lock
\* held), and what follows the last pass.
batch_timer_tick_pass(id, lost) ==
    /\ req.pc = "round"
    /\ id \in req.todo
    /\ LET built == IF lost THEN BuiltLosing(id, timers[id], now)
                    ELSE Built(id, timers[id], now)
           snapshot == built.snapshot
           etag == req.client_etags[id]
           r == [req EXCEPT !.io = TRUE, !.builds = @ + 1, !.todo = @ \ {id},
                            !.wrote = @ \/ built.row # timers[id],
                            !.fresh = [@ EXCEPT ![id] = snapshot.etag]]
           passed ==
               IF snapshot.etag # etag \/ ~req.wait
               THEN [r EXCEPT !.snapshots = [@ EXCEPT ![id] = snapshot],
                              !.order = Append(@, id),
                              !.pending = @ \ {id}]
               ELSE IF ~req.wait
               THEN [r EXCEPT !.not_modified = @ \cup {id}, !.pending = @ \ {id}]
               ELSE r
       IN  IF ~Found(id, req.user)
           THEN /\ req' = batch_tick_not_found(req)
                /\ timers' = timers
           ELSE /\ timers' = [timers EXCEPT ![id] = built.row]
                /\ req' = IF passed.todo = {} THEN RoundEnd(passed) ELSE passed
    /\ UNCHANGED <<now, db, cache, lock, pc, loc, snap, hist, rl, rq, rlCalls,
                   overdue, buckets>>

\* batch_timer_tick, lines 165-174: a pass whose build finalises what is
\* overdue.
batch_timer_tick_poll(id) == batch_timer_tick_pass(id, FALSE)

\* batch_timer_tick, lines 165-174: a pass whose build loses the finish lock.
batch_timer_tick_poll_lost(id) ==
    /\ req.pc = "round"
    /\ LosesLock(id)
    /\ batch_timer_tick_pass(id, TRUE)

\* The sleep is over: the next turn of the loop (line 135, line 164).
wake ==
    /\ req.pc = "sleep"
    /\ now >= req.wake
    /\ req' = IF req.kind = "tick" THEN [req EXCEPT !.pc = "poll"]
              ELSE [req EXCEPT !.pc = "round", !.todo = req.pending]
    /\ UNCHANGED <<now, db, cache, lock, pc, loc, snap, hist, rl, rq, rlCalls,
                   overdue, timers, buckets>>

\* The response has been sent: the handler is free for its next request.
Served ==
    /\ req.pc = "done"
    /\ req' = [NoRequest EXCEPT !.n = req.n, !.seen = req.seen]
    /\ UNCHANGED <<now, db, cache, lock, pc, loc, snap, hist, rl, rq, rlCalls,
                   overdue, timers, buckets>>

\* Another handler's cancel_timer commits (lines 94-95) on a running timer
\* while the polling handler serves a request.
ConcurrentCancel(id) ==
    /\ req.pc \notin {"idle", "done"}
    /\ timers[id].status = "running"
    /\ timers' = [timers EXCEPT ![id] = mark_canceled(@, now)]
    /\ UNCHANGED <<now, db, cache, lock, pc, loc, snap, hist, rl, rq, rlCalls,
                   overdue, buckets, req>>

\* The inputs of a request.  A client's fingerprint is none, one of a state the
\* timer has left, or the one of the timer's present state.
ClientEtags(id) == {NoEtag, StaleEtag, Built(id, timers[id], now).snapshot.etag}
ReferenceTimes == {None} \cup 0..(MaxTime \div TicksPerSecond)
Timeouts(wait) == IF wait THEN {None, 0, 1} ELSE {None}
IdLists == UNION {[1..n -> TimerIds] : n \in 0..MaxIds}
EtagMaps(timer_ids) ==
    {m \in [TimerIds -> {NoEtag, StaleEtag} \cup UNION {ClientEtags(id) : id \in TimerIds}] :
        \A id \in TimerIds :
            IF \E i \in 1..Len(timer_ids) : timer_ids[i] = id
            THEN m[id] \in ClientEtags(id) ELSE m[id] = NoEtag}

\* The single tick of one user: conditional requests and long polls.
TickNext ==
    \/ start_timer("u1")
    \/ /\ Free
       /\ \E id \in TimerIds, wait \in BOOLEAN, if_modified_since \in ReferenceTimes :
             \E if_none_match \in ClientEtags(id) :
                timer_tick("u1", id, wait, if_none_match, if_modified_since)
    \/ enforce_rate_limit
    \/ enforce_rate_limit_expire
    \/ \E id \in TimerIds : create_timer_insert(id)
    \/ timer_tick_poll
    \/ wake
    \/ \E id \in TimerIds : ConcurrentCancel(id)
    \/ Served
    \/ Tick

TickSpec == Init /\ [][TickNext]_vars

\* The batch tick of one user.
BatchNext ==
    \/ start_timer("u1")
    \/ /\ Free
       /\ \E timer_ids \in IdLists, wait \in BOOLEAN :
             \E client_etags \in EtagMaps(timer_ids),
                timeout_seconds \in Timeouts(wait) :
                batch_tick("u1", timer_ids, wait, client_etags, timeout_seconds)
    \/ enforce_rate_limit
    \/ enforce_rate_limit_expire
    \/ \E id \in TimerIds : create_timer_insert(id)
    \/ \E id \in TimerIds : batch_timer_tick_poll(id)
    \/ wake
    \/ \E id \in TimerIds : ConcurrentCancel(id)
    \/ Served
    \/ Tick

BatchSpec == Init /\ [][BatchNext]_vars

\* asyncio.sleep(interval), lines 145 and 183, takes its time: the clock
\* reaches the instant the sleeping handler is to be woken at.
SleepElapses ==
    /\ req.pc = "sleep"
    /\ now < req.wake
    /\ now' = req.wake
    /\ cache' = Unexpired(cache, NoCache, req.wake)
    /\ lock' = Unexpired(lock, NoLock, req.wake)
    /\ rl' = Unexpired(rl, NoCounter, req.wake)
    /\ rlCalls' = IF rl' = NoCounter THEN 0 ELSE rlCalls
    /\ buckets' = [k \in Keys |-> Unexpired(buckets[k], NoCounter, req.wake)]
    /\ UNCHANGED <<db, pc, loc, snap, hist, rq, overdue, timers, req>>

\* A step of the handler inside timer_tick or batch_timer_tick: a store call
\* returns and the coroutine runs to its next await.
PollStep ==
    \/ enforce_rate_limit
    \/ enforce_rate_limit_expire
    \/ timer_tick_poll
    \/ timer_tick_poll_lost
    \/ \E id \in TimerIds : batch_timer_tick_poll(id)
    \/ \E id \in TimerIds : batch_timer_tick_poll_lost(id)
    \/ wake

\* The ticks and batch ticks of one user, with builds that may lose the
\* finish lock, sleeps that end and store calls that return.  The handler is
\* a coroutine of a single event loop: the other handlers (ConcurrentCancel)
\* run while it is suspended in its sleep, and its own steps between two
\* sleeps take no time of the clock, which moves between the requests (Tick)
\* and during the sleeps (SleepElapses).  The client's fingerprint may also be
\* the one of a build that lost the lock (running, nothing remaining); a
\* timeout of 0 is the default timeout (Admitted) and is left to BatchSpec.
PollLiveNext ==
    \/ start_timer("u1")
    \/ /\ Free
       /\ \E id \in TimerIds, wait \in BOOLEAN :
             \E if_none_match \in ClientEtags(id)
                    \cup {BuiltLosing(id, timers[id], now).snapshot.etag} :
                timer_tick("u1", id, wait, if_none_match, None)
    \/ /\ Free
       /\ \E timer_ids \in IdLists, wait \in BOOLEAN :
             \E client_etags \in EtagMaps(timer_ids),
                timeout_seconds \in Timeouts(wait) \ {0} :
                batch_tick("u1", timer_ids, wait, client_etags, timeout_seconds)
    \/ enforce_rate_limit
    \/ enforce_rate_limit_expire
    \/ \E id \in TimerIds : create_timer_insert(id)
    \/ timer_tick_poll
    \/ timer_tick_poll_lost
    \/ \E id \in TimerIds : batch_timer_tick_poll(id)
    \/ \E id \in TimerIds : batch_timer_tick_poll_lost(id)
    \/ wake
    \/ SleepElapses
    \/ req.pc = "sleep" /\ \E id \in TimerIds : ConcurrentCancel(id)
    \/ Served
    \/ req.pc = "idle" /\ Tick

PollLiveSpec ==
    /\ Init /\ [][PollLiveNext]_vars
    /\ WF_vars(PollStep)
    /\ WF_vars(SleepElapses)

\* The four rate-limited actions of every user, without conditional headers
\* and without waiting.
GateNext ==
    \/ \E user \in Users : start_timer(user)
    \/ \E user \in Users, id \in TimerIds : cancel_timer_by_id(user, id)
    \/ \E user \in Users, id \in TimerIds : timer_tick(user, id, FALSE, NoEtag, None)
    \/ \E user \in Users, timer_ids \in IdLists :
          batch_tick(user, timer_ids, FALSE, NoRequest.client_etags, None)
    \/ enforce_rate_limit
    \/ enforce_rate_limit_expire
    \/ \E id \in TimerIds : create_timer_insert(id)
    \/ cancel_timer_body
    \/ timer_tick_poll
    \/ \E id \in TimerIds : batch_timer_tick_poll(id)
    \/ Served
    \/ Tick

GateSpec == Init /\ [][GateNext]_vars

\* Every user's requests on every id: the four of GateSpec and get_timer.
OwnerNext ==
    \/ GateNext
    \/ \E user \in Users, id \in TimerIds : get_timer_by_id(user, id)
    \/ get_timer_body

OwnerSpec == Init /\ [][OwnerNext]_vars

\* ------------------------------------------------- finalization (C1 - C3)
\* The positions inside _finalise_completed_timer and the refresh after it.
Finalising(p) ==
    pc[p] \in {"finalise", "commit", "release", "clear", "refresh_won", "refresh_lost"}

\* No cancel_timer has committed: the run is a race of finalizations only.
OnlyFinalisers == hist.cancelWrites = 0

\* C1: of the requests that race to finalise the same overdue running timer,
\* at most one writes the durable record (a caller that finds the lock taken
\* never raises: it goes on to the refresh).
C1_AtMostOneDurableWrite == OnlyFinalisers => hist.finalWrites <= 1

\* C2: once every finalization attempt on the overdue running timer has
\* returned (and at least one was made), the durable record has made exactly
\* one running -> completed transition and its version is the version before
\* the finalization plus one.
C2_OneCompletedTransition ==
    (OnlyFinalisers /\ hist.attempted /\ \A p \in Procs : ~Finalising(p))
        => /\ hist.runToCompleted = 1
           /\ db.status = "completed"
           /\ db.version = hist.preVersion + 1

\* C2's case: two finalizations of the same timer have committed and returned.
C2_Witness ==
    /\ OnlyFinalisers
    /\ hist.finalWrites >= 2
    /\ \A p \in Procs : ~Finalising(p)

\* C3, as claimed: the read that follows a caller's own finalization call
\* shows status completed, for the caller that held the lock and for the
\* callers that did not get it.
C3_EveryCallerReadsCompleted ==
    OnlyFinalisers =>
        \A p \in Procs :
            (pc[p] = "done" /\ snap[p].via \in {"won", "lost"})
                => snap[p].status = "completed"

\* C3, amended: the read after the finalization call shows completed for the
\* caller that held the lock; a caller that did not get the lock reads
\* completed, or still running while the holder has not committed yet.
C3_ReadAfterFinalise ==
    [][\A p \in Procs :
          (OnlyFinalisers /\ Finalising(p) /\ pc'[p] = "done")
              => /\ snap'[p].remaining_seconds = 0
                 /\ pc[p] = "refresh_won" => snap'[p].status = "completed"
                 /\ pc[p] = "refresh_lost" =>
                        \/ snap'[p].status = "completed"
                        \/ /\ snap'[p].status = "running"
                           /\ \E q \in Procs \ {p} : pc[q] = "commit"]_vars

\* C3's case: a caller that lost the lock has read the timer as still running
\* while another caller, which held the lock, has read it as completed.
C3_Witness ==
    /\ OnlyFinalisers
    /\ \E p, q \in Procs :
          /\ pc[p] = "done" /\ snap[p].via = "lost" /\ snap[p].status = "running"
          /\ pc[q] = "done" /\ snap[q].via = "won" /\ snap[q].status = "completed"

\* ------------------------------------------------ the durable row (C4 - C7)
\* C4: cancellation is terminal: once the durable status is canceled it stays
\* canceled, whatever request commits afterwards.
C4_CancellationIsTerminal ==
    [][db.status = "canceled" => db'.status = "canceled"]_vars

\* C5: in the durable row, status is running iff completed_at and canceled_at
\* are both null, and otherwise exactly one of the two is non-null.
C5_ExactlyOneTerminalTimestamp ==
    db # NoTimer =>
        /\ db.status = "running" <=> (db.completed_at = None /\ db.canceled_at = None)
        /\ db.status # "running" => (db.completed_at = None) # (db.canceled_at = None)

\* C6: the durable status is monotonic: once it has left running, no
\* operation sets it back to running.
C6_StatusMonotonic ==
    [][db.status \in {"completed", "canceled"} => db'.status # "running"]_vars

\* C6's case: the row has left running and a further write has been committed.
C6_Witness ==
    /\ db.status \in {"completed", "canceled"}
    /\ hist.finalWrites + hist.cancelWrites >= 2

\* C7: every committed mutation of the row leaves its version strictly
\* greater than the version it had just before the commit.
C7_VersionStrictlyIncreases ==
    [][(db # NoTimer /\ db' # db) => db'.version > db.version]_vars

\* ------------------------------------------------------- the cache (C8, C9)
\* C8, at rest (every request has returned): the hash nuro:timer:<id> exists
\* only if the durable status is running.  The window between a commit and
\* the DEL that follows it is left out of this reading.
C8_NoCacheUnlessRunning ==
    (\A p \in Procs : Idle(p)) => (cache # NoCache => db.status = "running")
\* The end scheduled at creation: started_at + duration_seconds.
ScheduledEnd == db.started_at + Seconds(DurationSeconds)

\* max(0, floor(ends_at - t)) in whole seconds (\div rounds down).
FloorRemaining(t) == Max((ScheduledEnd - t) \div TicksPerSecond, 0)

\* p's step ends the build of a snapshot of a timer whose copy was running
\* when the build began.
BuildOfRunningEnds(p) ==
    /\ pc[p] \in {"ensure", "reread", "refresh_won", "refresh_lost"}
    /\ pc'[p] = "done"
    /\ loc[p].status = "running" \/ Finalising(p)

\* What C9 says of the values, for a build with the hash present or absent:
\* remaining_seconds is max(0, floor(ends_at - now)); while something remains
\* the snapshot is running and ends at the durable ends_at.
SnapshotAgreesWithDurable(p) ==
    /\ snap'[p].remaining_seconds = FloorRemaining(now)
    /\ snap'[p].remaining_seconds > 0 =>
          /\ snap'[p].status = "running"
          /\ snap'[p].ends_at = db.ends_at

\* C9, as claimed: the snapshot built for a running timer whose hash is absent
\* agrees with the one built with the hash present (both follow the durable
\* ends_at), and after that build the hash exists again.
C9_AbsentCacheRebuilt ==
    [][\A p \in Procs :
          BuildOfRunningEnds(p) =>
              /\ SnapshotAgreesWithDurable(p)
              /\ snap'[p].miss => cache' # NoCache]_vars

\* C9, amended: the two snapshots agree as claimed; after a build that found
\* the hash absent the hash exists again if the snapshot has seconds remaining,
\* and when nothing remains and this build completed the timer, the hash is
\* deleted.
C9_AbsentCacheRebuiltWhileRemaining ==
    [][\A p \in Procs :
          BuildOfRunningEnds(p) =>
              /\ SnapshotAgreesWithDurable(p)
              /\ (snap'[p].miss /\ snap'[p].remaining_seconds > 0) => cache' # NoCache
              /\ pc[p] = "refresh_won" => cache' = NoCache]_vars

\* C9's case: a build that found no hash has returned a running snapshot with
\* seconds remaining, and the hash exists again.
C9_Witness ==
    \E p \in Procs :
        /\ pc[p] = "done" /\ snap[p].miss /\ snap[p].status = "running"
        /\ snap[p].remaining_seconds > 0 /\ snap[p].at = now
        /\ cache # NoCache

\* ------------------------------------------------------ rate limiter (C10)
\* C10: within one window the counter equals the number of ensure_rate_limit
\* calls made so far, rejected ones included, and the k-th call is allowed iff
\* k <= tokens and rejected iff k > tokens.
C10_RateLimitThreshold ==
    /\ rl.value = rlCalls
    /\ \A p \in Procs :
          /\ rq[p].pc = "allowed" => rq[p].k <= RateLimitTokens
          /\ rq[p].pc = "rejected" => rq[p].k > RateLimitTokens
          /\ rq[p].pc # "idle" => rq[p].current = rq[p].k

\* C10's case: in one window a call within the quota was allowed and a call
\* beyond it was rejected, and both were counted.
C10_Witness ==
    /\ rl.value > RateLimitTokens
    /\ \E p, q \in Procs :
          /\ rq[p].pc = "allowed" /\ rq[p].k = RateLimitTokens
          /\ rq[q].pc = "rejected" /\ rq[q].k = rl.value

\* ------------------------------------------------- the gate (C11, GateSpec)
\* The counter of the request in flight: nuro:rl:<scope>:<user id>.
OwnKey == "nuro:rl:" \o req.scope \o ":" \o req.user

\* The request is inside enforce_rate_limit.
AtGate == req.pc \in {"gate", "gate_expire"}

\* C11: in create_timer, cancel_timer, timer_tick and batch_timer_tick the
\* rate-limit check on (scope, user id) comes first: the durable store, the
\* cache and the lock are touched only by a request the limiter has counted
\* and admitted, a rejected request touches none of them, and a request
\* changes no counter but the one of its own (scope, user).
C11_RateLimitFirst ==
    [][/\ req'.io => req'.current \in 1..RateLimitTokens
       /\ req'.status_code = 429 => (~req'.io /\ req'.builds = 0)
       /\ (AtGate \/ req'.status_code = 429) => timers' = timers
       /\ timers' # timers => req.current \in 1..RateLimitTokens
       /\ \A k \in Keys :
             buckets'[k] # buckets[k] =>
                \/ AtGate /\ k = OwnKey
                \/ now' # now /\ buckets'[k] = NoCounter]_vars

\* C11's case: a request beyond the quota of its (scope, user) was rejected
\* while timers exist, and it touched none of them.
C11_Witness ==
    /\ req.status_code = 429 /\ req.pc = "done"
    /\ req.current > RateLimitTokens
    /\ ~req.io
    /\ \E id \in TimerIds : timers[id].status = "running"

\* ------------------------------------------ the overdue tick (C12, SeqSpec)
\* C12: a non-waiting tick that finds the timer running, past its deadline
\* and with no finish lock held returns status completed and remaining_seconds
\* 0, and once it has returned the durable status is completed and neither the
\* hash nor the finish lock exists.
C12_OverdueTickCompletes ==
    \A p \in Procs :
        (pc[p] = "done" /\ overdue[p])
            => /\ snap[p].status = "completed"
               /\ snap[p].remaining_seconds = 0
               /\ db.status = "completed"
               /\ cache = NoCache
               /\ lock = NoLock

\* C12's case: such a tick has returned, after writing the hash back on its
\* way (the hash had expired when the tick came).
C12_Witness ==
    \E p \in Procs :
        /\ pc[p] = "done" /\ overdue[p]
        /\ snap[p].via = "won" /\ snap[p].miss

\* ------------------------------------- the batch tick (C13 - C17, BatchSpec)
\* A batch tick has answered 200.
BatchAnswered == req.pc = "done" /\ req.kind = "batch" /\ req.status_code = 200

\* The ids a list or a response names.
Named(list) == {list[i] : i \in 1..Len(list)}
Resolved == {req.timers[i].id : i \in 1..Len(req.timers)}

\* The place of an id in a list that names it once.
Place(id, list) == CHOOSE i \in 1..Len(list) : list[i] = id

\* C13: in the response of a non-waiting batch tick, every requested id whose
\* snapshot fingerprint equals the client's fingerprint for it is in
\* not_modified and not among the resolved timers, and every other requested id
\* is among the resolved timers.
C13_UnchangedIdsNotModified ==
    (BatchAnswered /\ ~req.wait) =>
        \A id \in Named(req.timer_ids) :
            IF req.fresh[id] = req.client_etags[id]
            THEN id \in Named(req.not_modified_out) /\ id \notin Resolved
            ELSE id \in Resolved

\* C14: in a waiting batch tick no id is put in not_modified before the shared
\* deadline is reached, and the ids still pending when it is reached (their
\* fingerprint matched the client's in every round) are all reported in
\* not_modified: every requested id is either resolved or not modified.
C14_PendingFoldedAtDeadline ==
    (req.kind = "batch" /\ req.wait) =>
        /\ req.not_modified # {} =>
              /\ req.pc = "done"
              /\ req.returned_at >= req.deadline
              /\ req.not_modified = req.pending
        /\ BatchAnswered =>
              /\ Named(req.not_modified_out) = req.pending
              /\ Named(req.timer_ids) = Resolved \cup Named(req.not_modified_out)
              /\ Resolved \cap Named(req.not_modified_out) = {}
              /\ \A id \in req.pending : req.fresh[id] = req.client_etags[id]
              /\ req.pending # {} => req.returned_at >= req.deadline

\* C14's case: a waiting batch tick slept, reached its deadline with an id
\* still pending and reported it in not_modified.
C14_Witness ==
    /\ BatchAnswered /\ req.wait
    /\ req.sleeps >= 1
    /\ req.not_modified_out # <<>>

\* C15: a waiting batch tick that has resolved at least one id returns those
\* items rather than suspending for the ids that are still pending: it is
\* never asleep with a resolved id in hand.
C15_NoSleepOnceResolved ==
    (req.kind = "batch" /\ req.wait /\ req.pc = "sleep") => req.order = <<>>

\* C16: in every batch tick response the resolved items are in the relative
\* order of their ids in timer_ids, whatever the order they were resolved in,
\* and not_modified is in ascending order.
C16_ResponseOrder ==
    BatchAnswered =>
        /\ Resolved = Named(req.order)
        /\ \A i, j \in 1..Len(req.timers) :
              i < j => Place(req.timers[i].id, req.timer_ids)
                          < Place(req.timers[j].id, req.timer_ids)
        /\ Named(req.not_modified_out) = req.not_modified
        /\ \A i, j \in 1..Len(req.not_modified_out) :
              i < j => req.not_modified_out[i] < req.not_modified_out[j]

\* C16's case: two items were resolved in an order that is not the request's.
C16_Witness ==
    /\ BatchAnswered
    /\ Len(req.timers) >= 2
    /\ req.order # req.timer_ids

\* C17: a batch tick whose timer_ids names an id twice is rejected before any
\* I/O: no counter is incremented, no timer is loaded or finalised, no cache
\* entry or lock is touched.
C17_DuplicateIdsRejected ==
    [][(req.pc = "idle" /\ req'.kind = "batch"
          /\ Cardinality(Named(req'.timer_ids)) < Len(req'.timer_ids))
        => /\ req'.pc = "done" /\ req'.status_code = 422
           /\ ~req'.io /\ req'.builds = 0 /\ req'.current = 0
           /\ buckets' = buckets
           /\ timers' = timers]_vars

\* C17's case: a batch tick naming a running, overdue timer twice was rejected.
C17_Witness ==
    /\ req.pc = "done" /\ req.kind = "batch" /\ req.status_code = 422
    /\ \E id \in TimerIds :
          /\ req.timer_ids = <<id, id>>
          /\ timers[id].status = "running"
          /\ remaining_seconds(timestamp(timers[id].ends_at), now) = 0

\* ------------------------------------- the single tick (C18 - C20, TickSpec)
\* The tick route has answered with a snapshot (200) or with 304.
TickAnswered ==
    req.pc = "done" /\ req.kind = "tick" /\ req.status_code \in {200, 304}

\* The fingerprint the client sent for the timer it ticks.
ClientEtag(r) == r.client_etags[r.timer_ids[1]]

\* C18: when the client sends both a fingerprint and a reference time and its
\* fingerprint differs from the snapshot's, the outcome is "changed" (200 with
\* the snapshot), even if last_modified is at or before the reference time.
C18_FingerprintTakesPrecedence ==
    (/\ TickAnswered
     /\ ClientEtag(req) # NoEtag
     /\ req.client_last_modified # None
     /\ ClientEtag(req) # req.tick.etag)
        => req.status_code = 200

\* The fingerprint of a timer's state: id, status, version, remaining seconds.
Fingerprint(id, status, version, remaining) ==
    "W/" \o ToString(id) \o "::" \o status \o "::" \o ToString(version)
         \o "::" \o ToString(remaining)

\* C19: a non-waiting tick whose client fingerprint equals the fingerprint of
\* the snapshot just built is answered 304, with the fingerprint of the timer's
\* present state and its last-modified time in the headers; and a tick that
\* finds status, version and remaining_seconds as the tick before it on the
\* same timer found them returns the same fingerprint.
C19_ConditionalTick ==
    [][(req'.pc = "done" /\ req.pc # "done" /\ req'.kind = "tick"
          /\ req'.status_code \in {200, 304})
        => LET id == req'.timer_ids[1]
               tick == req'.tick
           IN  /\ (~req'.wait /\ ClientEtag(req') # NoEtag
                      /\ ClientEtag(req') = req'.fresh[id])
                   => /\ req'.status_code = 304
                      /\ req'.headers.ETag =
                            Fingerprint(id, timers'[id].status, timers'[id].version,
                                        tick.remaining_seconds)
                      /\ req'.headers.Last_Modified
                            = timers'[id].updated_at \div TicksPerSecond
               /\ (/\ req.seen.tick.id = id
                   /\ req.seen.tick.status = tick.status
                   /\ req.seen.version = timers'[id].version
                   /\ req.seen.tick.remaining_seconds = tick.remaining_seconds)
                   => tick.etag = req.seen.tick.etag]_vars

\* C19's case: a timer was ticked twice in the same state, and the second,
\* non-waiting tick, sent with the first one's fingerprint, was answered 304.
C19_Witness ==
    /\ TickAnswered /\ ~req.wait
    /\ req.status_code = 304
    /\ req.client_last_modified = None
    /\ ClientEtag(req) = req.tick.etag
    /\ req.repeat

\* C20: a non-waiting tick builds exactly one snapshot and never suspends; a
\* waiting tick returns as soon as a snapshot's fingerprint differs from the
\* client's, returns one whose fingerprint equals the client's only when the
\* deadline has been reached, and between two builds suspends once, for the
\* constant poll interval.
C20_SingleLongPoll ==
    [][(req'.kind = "tick" /\ req' # req) =>
         LET id == req'.timer_ids[1]
         IN  /\ ~req'.wait => (req'.pc # "sleep" /\ req'.builds <= 1)
             /\ (TickAnswered' /\ ~req'.wait) => req'.builds = 1
             /\ (req.pc = "poll" /\ req'.pc = "sleep")
                   => /\ req'.fresh[id] = ClientEtag(req)
                      /\ now < req.deadline
                      /\ req'.wake = now + LongPollInterval
             /\ (req.pc = "poll" /\ req'.fresh[id] # ClientEtag(req)
                      /\ req'.status_code # 404)
                   => (TickAnswered' /\ req'.tick.etag = req'.fresh[id])
             /\ (TickAnswered' /\ req'.wait /\ req'.tick.etag = ClientEtag(req'))
                   => req'.returned_at >= req'.deadline
             /\ req'.pc = "poll" => req'.sleeps = req'.builds
             /\ req'.pc \in {"sleep", "done"} /\ req'.builds > 0
                   => req'.sleeps = req'.builds - IF req'.pc = "done" THEN 1 ELSE 0
             /\ (req.pc = "gate" \/ req.pc = "gate_expire") /\ req'.pc = "poll"
                   => req'.deadline = now + IF req'.wait THEN LongPollTimeout ELSE 0
         ]_vars

\* C20's case: a waiting tick suspended twice and returned at its deadline a
\* snapshot whose fingerprint is still the client's.
C20_Witness ==
    /\ TickAnswered /\ req.wait
    /\ req.tick.etag = ClientEtag(req)
    /\ req.sleeps >= 2
    /\ req.builds = req.sleeps + 1

\* ------------------------------------------- the poll deadline (C21, TickSpec)
\* C21: the deadline of a waiting timer_tick is a hard bound: the snapshot
\* build that follows a poll-interval sleep (timer load, build, finalization)
\* is started before the deadline, and so is every sleep.  (batch_timer_tick
\* wakes into its next round in the same way, lines 164-183.)
C21_NoBuildPastDeadline ==
    [][(req.kind = "tick" /\ req.wait /\ req.sleeps >= 1)
        => /\ req'.builds > req.builds => now < req.deadline
           /\ req'.sleeps > req.sleeps => now < req.deadline]_vars

\* ----------------------------------------------- remaining seconds (C22)
\* The row has been running, unwritten, since it was created.
StaysRunning == db'.status = "running" /\ hist'.finalWrites = 0 /\ hist'.cancelWrites = 0

\* C22: every snapshot has remaining_seconds >= 0, and while the timer stays
\* running and is not written, a snapshot that reports it running reports no
\* more remaining_seconds than the snapshot before it did, whether either was
\* computed from the cache entry or from the durable ends_at.
C22_RemainingNeverGrows ==
    [][\A p \in Procs :
          (snap'[p] # snap[p] /\ snap'[p].remaining_seconds # None)
              => /\ snap'[p].remaining_seconds >= 0
                 /\ (StaysRunning /\ snap'[p].status = "running" /\ hist.last # None)
                        => snap'[p].remaining_seconds <= hist.last]_vars

\* C22's case: of two snapshots that report the running timer, one was
\* computed from the cache entry and the other, later, from the durable
\* ends_at after the entry was lost.
C22_Witness ==
    \E p, q \in Procs :
        /\ db.status = "running"
        /\ snap[p].status = "running" /\ snap[p].via = "cache"
        /\ snap[q].status = "running" /\ snap[q].via = "row"
        /\ snap[p].at <= snap[q].at
        /\ hist.last = snap[q].remaining_seconds

\* ------------------------------------------- not found (C23, OwnerSpec)
\* The request has just been answered 404.
Refused == req'.status_code = 404 /\ req.status_code # 404

\* C23, as claimed: a request that names a timer of another user, or an id
\* that does not exist, is answered NotFound and has changed no durable timer.
C23_RefusedChangedNothing == req.status_code = 404 => ~req.wrote

\* C23, amended: a request loading an id that is not the caller's is answered
\* 404 by a step that changes no timer, and the response is the same whether
\* the id belongs to someone else or to nobody: it is a function of the request
\* alone.  No request changes a timer of another user.  A get, a cancel and a
\* tick so refused have changed nothing at all; a batch tick may by then have
\* built snapshots of the caller's own timers, and finalised them.
C23_NotFoundAlike ==
    [][/\ (req' # req /\ req.pc \in {"get", "cancel", "poll"}
              /\ ~Found(req.timer_ids[1], req.user)) => Refused
       /\ (req' # req /\ req.pc = "round"
              /\ \A id \in req.todo : ~Found(id, req.user)) => Refused
       /\ Refused =>
             /\ timers' = timers
             /\ req' = Respond([req EXCEPT !.io = TRUE], 404)
             /\ \E id \in Named(req.timer_ids) : ~Found(id, req.user)
             /\ req.kind # "batch" => (~req.wrote /\ req.builds = 0)
       /\ \A id \in TimerIds :
             (timers'[id] # timers[id] /\ timers[id] # NoRow)
                 => timers[id].user_id = req.user]_vars

\* C23's case: a batch tick was refused for a running timer of another user
\* after it had finalised a timer of the caller's.
C23_Witness ==
    /\ req.status_code = 404 /\ req.kind = "batch" /\ req.wrote
    /\ \E id \in Named(req.timer_ids) :
          /\ timers[id].status = "running"
          /\ timers[id].user_id # req.user

\* ------------------------------------------------- fingerprints (C24)
\* p holds a snapshot of the timer.
HasSnapshot(p) == snap[p].status \in {"running", "completed", "canceled"}

\* build_weak_etag of two snapshots of the timer gives the same value: the
\* digest is taken over id, status, version and remaining_seconds.
SameFingerprint(p, q) ==
    /\ snap[p].status = snap[q].status
    /\ snap[p].version = snap[q].version
    /\ snap[p].remaining_seconds = snap[q].remaining_seconds

\* C24: two snapshots of the timer whose fingerprints are equal have the same
\* status, the same ends_at and the same remaining_seconds, also when cancel
\* and finalization race.
C24_EqualFingerprintEqualView ==
    \A p, q \in Procs :
        (HasSnapshot(p) /\ HasSnapshot(q) /\ SameFingerprint(p, q))
            => snap[p].ends_at = snap[q].ends_at

\* ------------------------------------------------- the frame of ends_at (C25)
\* The step is the commit of a completion: _finalise_completed_timer, lines
\* 281-282.
CompletionCommits == \E p \in Procs : pc[p] = "commit" /\ pc'[p] = "release"

\* C25: create sets ends_at to started_at + duration_seconds; afterwards only
\* a completion changes ends_at (to the instant of completion), and every
\* other step (cancel, get, a tick that does not finalize, cache writes)
\* leaves started_at, ends_at and completed_at as they are; ends_at is never
\* before started_at.
C25_EndsAtFrame ==
    [][/\ (db = NoTimer /\ db' # NoTimer)
              => db'.ends_at = db'.started_at + Seconds(DurationSeconds)
       /\ (db # NoTimer /\ db'.ends_at # db.ends_at)
              => /\ CompletionCommits
                 /\ db'.status = "completed"
                 /\ db'.ends_at = now /\ db'.completed_at = now
       /\ (db # NoTimer /\ ~CompletionCommits)
              => /\ db'.ends_at = db.ends_at
                 /\ db'.completed_at = db.completed_at
       /\ db # NoTimer => db'.started_at = db.started_at
       /\ db' # NoTimer => db'.ends_at >= db'.started_at]_vars

\* C25's case: the timer was canceled some time after it was created, a
\* request has since read it, and its end is still the scheduled one.
C25_Witness ==
    /\ db.status = "canceled" /\ db.canceled_at > db.started_at
    /\ db.ends_at = db.started_at + Seconds(DurationSeconds)
    /\ db.completed_at = None
    /\ \E p \in Procs : pc[p] = "done" /\ snap[p].status = "canceled"
                        /\ snap[p].ends_at = db.ends_at

\* --------------------------------------------------- the finish lock (C26)
\* p is between its successful SET NX (line 274) and its own DEL of the lock
\* (line 284).
InCriticalSection(p) == pc[p] \in {"commit", "release"}

\* C26: no two callers are inside the critical section of the timer's
\* completion at once, whatever cancel_timer and the lock's TTL do meanwhile.
C26_MutualExclusion ==
    \A p, q \in Procs : (InCriticalSection(p) /\ InCriticalSection(q)) => p = q

\* ------------------------------------------------ the losing caller (C27)
\* p's step is one of a caller whose SET NX failed: the failed SET itself
\* (lines 274-278) or the refresh and snapshot that follow it (lines 242-244).
LosersStep(p) ==
    \/ pc[p] = "finalise" /\ pc'[p] = "refresh_lost"
    \/ pc[p] = "refresh_lost" /\ pc'[p] = "done"

\* C27: a caller whose create-if-absent of the lock fails goes on without an
\* error and writes nothing: the durable row, the cache entry and the lock
\* (holder and time to live) are as they were; its snapshot has nothing
\* remaining and the status the row has then, which is running as long as no
\* holder has committed.
C27_LoserWritesNothing ==
    [][\A p \in Procs :
          LosersStep(p) =>
              /\ db' = db /\ cache' = cache /\ lock' = lock
              /\ pc[p] = "finalise" => lock # NoLock
              /\ pc'[p] = "done" =>
                    /\ snap'[p].via = "lost"
                    /\ snap'[p].remaining_seconds = 0
                    /\ snap'[p].status = db.status
                    /\ (OnlyFinalisers /\ hist.finalWrites = 0)
                           => snap'[p].status = "running"]_vars

\* C27's case: a caller has lost the lock some time after the holder took it
\* and returned a running snapshot with nothing remaining, while the holder is
\* still before its commit and the lock runs out when it did before.
C27_Witness ==
    \E p, q \in Procs :
        /\ pc[p] = "done" /\ snap[p].via = "lost"
        /\ snap[p].status = "running" /\ snap[p].remaining_seconds = 0
        /\ pc[q] = "commit" /\ lock.by = q
        /\ lock.expiry < snap[p].at + Seconds(LockTtlSeconds)
        /\ db.status = "running"

\* --------------------------------------- cleanup after the commit (C28, FailSpec)
\* C28: a caller that acquired the lock leaves finalization through the same
\* cleanup whether its commit succeeded or raised: it deletes the lock, then
\* the cache entry.  A commit that raised has written nothing, so the row is
\* as it was (running, if nobody else wrote it), and the lock is free for the
\* next observer at once.
C28_CleanupAlways ==
    [][\A p \in Procs :
          /\ (pc[p] = "commit" /\ pc'[p] # "commit") => pc'[p] = "release"
          /\ (pc[p] = "commit" /\ snap'[p].via = "failed") => db' = db
          /\ (pc[p] = "release" /\ pc'[p] # "release")
                => (pc'[p] = "clear" /\ lock' = NoLock)
          /\ (pc[p] = "clear" /\ pc'[p] # "clear")
                => /\ cache' = NoCache
                   /\ pc'[p] = IF snap[p].via = "failed" THEN "done"
                                                         ELSE "refresh_won"
          /\ (pc'[p] = "done" /\ pc[p] # "done" /\ snap'[p].via = "failed")
                => (pc[p] = "clear" /\ snap'[p].status = "error")]_vars

\* C28's case: a holder's commit failed and it left with the error; the row was
\* still running, and another observer has since acquired the lock and
\* completed the timer, before the first lock's TTL was over.
C28_Witness ==
    \E p, q \in Procs :
        /\ pc[p] = "done" /\ snap[p].status = "error"
        /\ pc[q] = "done" /\ snap[q].via = "won" /\ snap[q].status = "completed"
        /\ snap[q].at >= snap[p].at
        /\ snap[q].at < snap[p].at + Seconds(LockTtlSeconds)
        /\ hist.finalWrites = 1 /\ hist.cancelWrites = 0
        /\ lock = NoLock /\ cache = NoCache

\* ------------------------------------------ self-healing (C29, LiveSpec)
\* C29: a lock never has more than its TTL left to live, and once the holder
\* of the lock has crashed the timer is eventually completed in the durable
\* store, as long as it keeps being observed.
C29_SelfHealing ==
    /\ [](lock # NoLock => lock.expiry - now \in 0..Seconds(LockTtlSeconds))
    /\ (\E p \in Procs : pc[p] = "crashed") ~> (db.status = "completed")

\* C29's case: the holder crashed before its commit, the lock ran out, and an
\* observer that came later has completed the timer.
C29_Witness ==
    \E p, q \in Procs :
        /\ pc[p] = "crashed" /\ loc[p].status = "running"
        /\ now >= Seconds(LockTtlSeconds)
        /\ pc[q] = "done" /\ snap[q].via = "won"
        /\ db.status = "completed" /\ hist.finalWrites = 1
        /\ lock = NoLock

\* ------------------------------------- the completion transition (C30, SeqSpec)
\* C30: the commit of the lock holder sets status completed, completed_at and
\* ends_at to the present instant, the version to the version before plus one
\* and updated_at to the present instant, all in that one write; the steps
\* that follow it write the row no more, and the snapshot returned reports
\* the frozen ends_at and the new version, from which its fingerprint is made.
C30_CompletionTransition ==
    [][\A p \in Procs :
          /\ (pc[p] = "commit" /\ pc'[p] = "release")
                => /\ db.status = "running"
                   /\ db'.status = "completed"
                   /\ db'.completed_at = now
                   /\ db'.ends_at = now
                   /\ db'.version = db.version + 1
                   /\ db'.updated_at = now /\ db'.updated_at >= db.updated_at
                   /\ db'.started_at = db.started_at
                   /\ db'.canceled_at = None
          /\ (pc[p] \in {"release", "clear", "refresh_won"} /\ pc'[p] # pc[p])
                => db' = db
          /\ (pc[p] = "refresh_won" /\ pc'[p] = "done")
                => /\ snap'[p].status = "completed"
                   /\ snap'[p].remaining_seconds = 0
                   /\ snap'[p].ends_at = db.completed_at
                   /\ snap'[p].version = hist.preVersion + 1
                   /\ snap'[p].version = db.version
                   /\ snap'[p].last_modified = db.updated_at]_vars

\* C30's case: a holder completed the timer at an instant that is not its
\* scheduled end and has returned the snapshot.
C30_Witness ==
    \E p \in Procs :
        /\ pc[p] = "done" /\ snap[p].via = "won"
        /\ db.status = "completed"
        /\ db.ends_at # db.started_at + Seconds(DurationSeconds)
        /\ snap[p].ends_at = db.ends_at
        /\ snap[p].version = InitialVersion + 1

\* ------------------------------------------- the fixed window (C31, RateSpec)
\* C31: the expiry of the counter is set once per window, by the call that
\* created the counter (the one whose INCR replied 1), and no later call of
\* the window sets it again or moves it.
C31_ExpirySetOnce ==
    [][/\ \A p \in Procs :
             (rq[p].pc = "expire" /\ rq'[p].pc # "expire") => rq[p].current = 1
       /\ (rl.expiry # None /\ rl' # NoCounter) => rl'.expiry = rl.expiry]_vars

\* ------------------------------- a failing cache read (C32, CacheFailSpec)
\* C32: a request whose cache read failed still ends with a snapshot of the
\* durable record: the status of its copy and the whole seconds the record
\* has left.
C32_CacheReadFailureRecovered ==
    \A p \in Procs :
        (pc[p] = "done" /\ snap[p].via = "unread") =>
            /\ snap[p].status = loc[p].status
            /\ snap[p].remaining_seconds =
                   IF loc[p].status = "running"
                   THEN remaining_of_row(loc[p], snap[p].at) ELSE 0

\* ------------------------------------ completion and the deadline (C33)
\* C33: every durable commit of a completion happens at or after the end
\* scheduled at creation: completed_at and the new ends_at are not before
\* it, so a timer with a fraction of a second left is not finalised.
C33_CompletedAfterDeadline ==
    [][\A p \in Procs :
          (pc[p] = "commit" /\ pc'[p] = "release" /\ db' # db) =>
              /\ db'.completed_at >= ScheduledEnd
              /\ db'.ends_at >= ScheduledEnd]_vars

\* --------------------------------- the batch response is a partition (C34)
\* C34: a batch tick that answers 200 names every requested id exactly once,
\* either among the resolved timers or in not_modified, never in both, and
\* names no id that was not requested; waiting or not, whatever the round an
\* id was resolved in.
C34_BatchPartition ==
    BatchAnswered =>
        /\ Resolved \cup Named(req.not_modified_out) = Named(req.timer_ids)
        /\ Resolved \cap Named(req.not_modified_out) = {}
        /\ Len(req.timers) = Cardinality(Resolved)
        /\ Len(req.not_modified_out) = Cardinality(Named(req.not_modified_out))
        /\ Len(req.timers) + Len(req.not_modified_out) = Len(req.timer_ids)

\* C34's case: a waiting batch tick of two ids resolved one of them in a
\* round, slept, and reported the other in not_modified at the deadline.
C34_Witness ==
    /\ BatchAnswered /\ req.wait
    /\ Len(req.timer_ids) = 2
    /\ Len(req.timers) = 1 /\ Len(req.not_modified_out) = 1
    /\ req.sleeps >= 1

\* ------------------------------- a batch naming a foreign id (C35, OwnerSpec)
\* C35: a batch tick that names an id which is absent or not the caller's
\* never answers 200; the pass that loads such an id answers 404 with no
\* timers and no not_modified ids, whatever passes came before it, and leaves
\* every row as it is, the rows finalised by earlier passes included.
C35_BatchNotFound ==
    [][/\ (req.kind = "batch" /\ req.pc = "round" /\ req' # req
             /\ \E id \in Named(req.timer_ids) : ~Found(id, req.user))
          => /\ req'.pc = "done" => req'.status_code = 404
             /\ req'.todo = req.todo => req'.status_code = 404
       /\ (req.kind = "batch" /\ req.pc = "round" /\ req'.status_code = 404)
          => /\ req'.pc = "done"
             /\ req'.timers = <<>> /\ req'.not_modified_out = <<>>
             /\ req'.tick = NoTick
             /\ req'.wrote = req.wrote
             /\ timers' = timers
             /\ \E id \in req.todo : ~Found(id, req.user)]_vars

\* C35's case: a batch tick finalised a timer of the caller's in one pass and
\* was refused in a later pass for an id that does not exist.
C35_Witness ==
    /\ req.pc = "done" /\ req.kind = "batch" /\ req.status_code = 404
    /\ req.builds >= 1
    /\ \E id, other \in Named(req.timer_ids) :
          /\ timers[id] = NoRow
          /\ timers[other].status = "completed"
          /\ timers[other].completed_at = req.returned_at

\* ------------------------------------ cancel is idempotent (C36, SeqSpec)
\* C36: a cancel_timer that loads a completed or canceled row goes on to the
\* view without a commit: none of its steps changes the row (status, version,
\* the four instants), the hash or the lock, and it returns the view of the
\* row as it is.  With one request at a time a canceled row is never written
\* again, so a second cancel leaves what the first one left.
C36_CancelIdempotent ==
    [][/\ \A p \in Procs :
            /\ (Idle(p) /\ pc'[p] # pc[p] /\ hist'.noop[p])
                  => /\ pc'[p] = "ensure"
                     /\ db' = db /\ cache' = cache /\ lock' = lock
            /\ (~Idle(p) /\ pc'[p] # pc[p] /\ hist.noop[p])
                  => /\ pc'[p] = "done"
                     /\ db' = db /\ cache' = cache /\ lock' = lock
                     /\ snap'[p].status = db.status
                     /\ snap'[p].version = db.version
                     /\ snap'[p].ends_at = db.ends_at
                     /\ snap'[p].last_modified = db.updated_at
                     /\ snap'[p].remaining_seconds = 0
       /\ db.status = "canceled" => db' = db]_vars

\* C36's case: a timer was canceled once, and a later cancel_timer that found
\* it canceled has returned.
C36_Witness ==
    \E p \in Procs :
        /\ pc[p] = "done" /\ hist.noop[p]
        /\ snap[p].status = "canceled"
        /\ snap[p].at > db.canceled_at
        /\ hist.cancelWrites = 1

\* ------------------------------------- polls return (C37, PollLiveSpec)
\* A tick or a batch tick is being served.
Polling == req.kind \in {"tick", "batch"} /\ req.pc \notin {"idle", "done"}

\* The sleeps a call can begin before its deadline: each begins at least one
\* interval after the one before it.
MaxSleeps == (LongPollTimeout + LongPollInterval - 1) \div LongPollInterval

\* The step is the deadline check of a turn (timer_tick) or of a round
\* (batch_timer_tick, after the last pass) with the deadline reached.
ChecksAfterDeadline ==
    /\ Polling /\ req' # req
    /\ now >= req.deadline
    /\ \/ req.pc = "poll"
       \/ req.pc = "round" /\ Cardinality(req.todo) = 1

====
